---- MODULE Spec2Model ----
(***************************************************************************)
(* A model of the VisionSync bridge: the Connection Server                 *)
(* (websocket-server.ts), the message codec (message-utils), the AI Bridge *)
(* (ai-bridge) and the orchestrator's event handlers                       *)
(* (vision-sync-service.ts), together with the host task they talk to.     *)
(*                                                                         *)
(* Every handler is one action.  A handler's nested calls are operators    *)
(* that take and return a "world" record w holding the mutable state they  *)
(* touch; the action assigns the final world to the primed variables.      *)
(*                                                                         *)
(* SpecServer is the Connection Server used on its own (it is exported     *)
(* for stand-alone use).  Spec is the running system: the Connection       *)
(* Server listening, the Bridge initialised with a provider, and the       *)
(* orchestrator's handler bodies subscribed to the server's and the        *)
(* Bridge's events; which handlers are subscribed is the state             *)
(* wsHandlers / bridgeHandlers, so the dispatch is explicit.  The server's *)
(* heartbeat, broadcast() and stop() are exercised under SpecServer; under *)
(* Spec a connection ends by a close from the peer or a socket error,      *)
(* which run the same disconnectClient.  SpecServerLive is SpecServer with *)
(* every armed interval timer firing again and again.  SpecNoProvider is   *)
(* the service started without a provider.  The events the Connection      *)
(* Server emits while a handler runs are listed in the world's field       *)
(* emitted, as the embedding application's listeners observe them.         *)
(*                                                                         *)
(* SpecBroadcast is the Connection Server with room for every socket, so   *)
(* that several connections are held at once.  SpecLifecycle is the        *)
(* service from its construction, with start() and stop() as written.      *)
(* SpecService is the running service with its connections and with        *)
(* calls of start() and stop(); SpecServiceLive adds that a closing        *)
(* server reports closed and that an awaiting stop() resumes.  The         *)
(* sockets whose send() throws are the world's field faulty.               *)
(*                                                                         *)
(* SpecRestart is the running system with stop() and a start() that makes  *)
(* all its registrations, so that the service is started a second time.    *)
(* SpecCodec is the codec alone: a frame drawn from CodecInputs is decoded *)
(* and what was decoded is validated.  SpecPorts is the two port scans of  *)
(* start() alone, for every configuration and set of busy ports of the     *)
(* model.  The "messageForClient" events of the Bridge are the world's     *)
(* field forClient.                                                        *)
(***************************************************************************)
EXTENDS Integers, Sequences, FiniteSets, TLC

(* ------------------------------ bounds -------------------------------- *)
\* the configured cap (VisionSyncConfig.maxConnections) used in the model
maxConnections == 1
\* sockets the remote side opens
MaxSockets == 2
\* frames the server receives
MaxFrames == 2
\* task messages in one task's log
MaxLog == 2
\* tasks the host creates
MaxTasks == 1
MaxCalls == 3         \* calls of the service's start() and stop()
MaxPorts == 4         \* ports, from the default one on, that may be configured or busy

SocketIds == 1..MaxSockets

(* ------------------------------ constants ----------------------------- *)
pingInterval == 30000
pongTimeout == 5000
defaultPort == 8765
defaultDiscoveryPort == 8766
maxAttempts == 10

CONNECTING == "connecting"
CONNECTED == "connected"

VisionMessageType ==
  {"ClientHandshake", "ConnectionAccepted", "ConnectionRejected",
   "AIConversation", "AskResponse", "TriggerSend", "Ping", "Pong", "Echo"}

AllHandlers == {"clientConnected", "clientDisconnected", "messageReceived", "error"}

(* ------------------------------ state --------------------------------- *)
VARIABLES
  running,        \* VisionWebSocketServer.isRunning
  server,         \* VisionWebSocketServer.server: "none", "listening" or "closing"
  provider,       \* VisionAIBridge.provider is set
  clients,        \* VisionWebSocketServer.clients: id -> connection record
  timers,         \* ids whose heartbeat interval is armed
  sock,           \* the sockets: readyState, server-issued close, frames written
  nextId,         \* randomUUID() in the Bridge's conversions: the next fresh identifier
  clock,          \* Date.now(), in frames received so far
  wsHandlers,     \* the orchestrator's handlers subscribed to the server
  bridgeHandlers, \* number of "messageForClient" listeners on the Bridge
  bclients,       \* VisionAIBridge.clients, in insertion order
  pending,        \* host operations awaited by an inbound handler
  task,           \* provider.getCurrentTask(): 0 when there is none
  tasksCreated,   \* tasks the host has created so far
  log,            \* currentTask.clineMessages
  taskListeners,  \* VisionAIBridge.taskListeners: task ids with a listener
  handshaken,     \* history: ids whose valid ClientHandshake was processed
  sentAI,         \* history: ids that sent a well-formed AI-typed frame
  svc,            \* VisionSyncService: its fields, its start()/stop() calls in flight
  config,         \* the configuration the service and its server were built with
  codec,          \* a frame on its way through deserializeMessage and validateMessage
  scan            \* the port scans of a start(): the configuration, the busy ports, the result

vars == <<running, server, provider, clients, timers, sock, nextId, clock, wsHandlers, bridgeHandlers,
          bclients, pending, task, tasksCreated, log, taskListeners,
          handshaken, sentAI, svc, config, codec, scan>>

\* the mutable state as one record, threaded through the handlers' calls;
\* emitted lists the events the Connection Server emits while one handler runs
World ==
  [running |-> running, server |-> server, provider |-> provider, clients |-> clients, timers |-> timers, sock |-> sock,
   nextId |-> nextId, clock |-> clock, wsHandlers |-> wsHandlers, bridgeHandlers |-> bridgeHandlers,
   bclients |-> bclients, pending |-> pending, task |-> task,
   tasksCreated |-> tasksCreated, log |-> log, taskListeners |-> taskListeners,
   svc |-> svc, config |-> config,
   emitted |-> <<>>, faulty |-> {}, forClient |-> <<>>]

Commit(w) ==
  /\ running' = w.running
  /\ server' = w.server
  /\ provider' = w.provider
  /\ clients' = w.clients
  /\ timers' = w.timers
  /\ sock' = w.sock
  /\ nextId' = w.nextId
  /\ clock' = w.clock
  /\ wsHandlers' = w.wsHandlers
  /\ bridgeHandlers' = w.bridgeHandlers
  /\ bclients' = w.bclients
  /\ pending' = w.pending
  /\ task' = w.task
  /\ tasksCreated' = w.tasksCreated
  /\ log' = w.log
  /\ taskListeners' = w.taskListeners
  /\ svc' = w.svc
  /\ config' = w.config
  /\ codec' = codec
  /\ scan' = scan

\* remove key k from the function f
Remove(f, k) == [x \in (DOMAIN f) \ {k} |-> f[x]]
\* f with key k set to v (k may be new)
Put(f, k, v) == [x \in (DOMAIN f) \cup {k} |-> IF x = k THEN v ELSE f[x]]

(* ------------------------------ codec --------------------------------- *)
\* A parsed JSON object is a record; an absent key is a key outside its
\* DOMAIN.  JavaScript truthiness, per field type:
Has(r, f) == f \in DOMAIN r
TruthyStr(r, f) == f \in DOMAIN r /\ r[f] # ""
TruthyNum(r, f) == f \in DOMAIN r /\ r[f] # 0

\* the result of a decode that threw
DecodeError == [error |-> "Failed to deserialize message"]
IsError(m) == "error" \in DOMAIN m

\* n stands for the pair (Date.now(), randomUUID()) drawn when the message is built
createBaseMessage(type, n) == [type |-> type, timestamp |-> n, id |-> n]

connectionAccepted(n, connectionId) ==
  [type |-> "ConnectionAccepted", timestamp |-> n, id |-> n,
   payload |-> [connectionId |-> connectionId,
                serverInfo |-> [name |-> "Roo Code", version |-> "1.0.0",
                                capabilities |-> <<"ai_conversation", "trigger_send", "echo">>]]]

connectionRejected(n, reason) ==
  [type |-> "ConnectionRejected", timestamp |-> n, id |-> n, reason |-> reason]

\* partial is "undefined", "true" or "false": the key is emitted only when defined
aiConversation(n, sessionId, role, content, metadata, partial) ==
  [type |-> "AIConversation", timestamp |-> n, id |-> n,
   payload |-> IF partial # "undefined"
               THEN [sessionId |-> sessionId, role |-> role, content |-> content,
                     metadata |-> metadata, partial |-> partial]
               ELSE [sessionId |-> sessionId, role |-> role, content |-> content,
                     metadata |-> metadata]]

pong(n) == createBaseMessage("Pong", n)

echo(n, message) ==
  [type |-> "Echo", timestamp |-> n, id |-> n, payload |-> [message |-> message]]

\* a record with key k defaulted to v when the key is absent or falsy
DefaultNum(r, k, v) == IF TruthyNum(r, k) THEN r ELSE Put(r, k, v)
DefaultStr(r, k, v) == IF TruthyStr(r, k) THEN r ELSE Put(r, k, v)
OrStr(r, k, v) == IF TruthyStr(r, k) THEN r[k] ELSE v

\* the part of deserializeMessage that follows the back-filling of timestamp
\* and id: a ClientHandshake is rebuilt from its payload or from defaults,
\* an AIConversation gets its session_id copied to sessionId
payloadFormat(parsed) ==
  IF parsed.type = "ClientHandshake"
  THEN IF Has(parsed, "payload")
       THEN [type |-> parsed.type, timestamp |-> parsed.timestamp, id |-> parsed.id,
             clientType |-> OrStr(parsed.payload, "clientType", "visionOS"),
             version |-> OrStr(parsed.payload, "version", "1.0.0"),
             capabilities |-> IF Has(parsed.payload, "capabilities")
                              THEN parsed.payload.capabilities ELSE <<>>]
       ELSE IF TruthyStr(parsed, "clientType") /\ TruthyStr(parsed, "version")
               /\ Has(parsed, "capabilities")
       THEN parsed
       ELSE [type |-> parsed.type, timestamp |-> parsed.timestamp, id |-> parsed.id,
             clientType |-> "visionOS", version |-> "1.0.0", capabilities |-> <<>>]
  ELSE IF parsed.type = "AIConversation" /\ Has(parsed, "payload")
  THEN IF TruthyStr(parsed.payload, "session_id") /\ ~TruthyStr(parsed.payload, "sessionId")
       THEN [parsed EXCEPT !.payload = Put(parsed.payload, "sessionId", parsed.payload.session_id)]
       ELSE parsed
  ELSE parsed

\* the identifier given to a frame that carries none: the client type, the
\* clock and a random suffix (the suffix is left out)
generatedId(now) == "visionOS-" \o ToString(now)

\* the older decoder of message-utils.ts: a frame without timestamp or id is
\* thrown away
deserializeMessage_Strict(data, now) ==
  IF Has(data, "malformed") THEN DecodeError
  ELSE IF ~TruthyStr(data, "type") \/ ~TruthyNum(data, "timestamp") \/ ~TruthyStr(data, "id")
  THEN DecodeError
  ELSE IF data.type \notin VisionMessageType THEN DecodeError
  ELSE payloadFormat(data)

\* deserializeMessage: data is the parsed frame, or a record with the key
\* "malformed" when JSON.parse throws; now is Date.now()
deserializeMessage(data, now) ==
  IF Has(data, "malformed") THEN DecodeError
  ELSE IF ~TruthyStr(data, "type") THEN DecodeError
  ELSE IF data.type \notin VisionMessageType THEN DecodeError
  ELSE payloadFormat(DefaultStr(DefaultNum(data, "timestamp", now), "id", generatedId(now)))

\* msg.payload?.f is truthy
PayloadStr(msg, f) == Has(msg, "payload") /\ TruthyStr(msg.payload, f)

validateMessage(msg) ==
  IF IsError(msg) THEN FALSE
  ELSE IF ~TruthyStr(msg, "type") \/ ~TruthyNum(msg, "timestamp") \/ ~TruthyStr(msg, "id")
  THEN FALSE
  ELSE IF msg.type \notin VisionMessageType THEN FALSE
  ELSE CASE msg.type = "ClientHandshake" ->
              IF Has(msg, "payload")
              THEN /\ TruthyStr(msg.payload, "clientType")
                   /\ TruthyStr(msg.payload, "version")
                   /\ Has(msg.payload, "capabilities")
              ELSE /\ TruthyStr(msg, "clientType")
                   /\ TruthyStr(msg, "version")
                   /\ Has(msg, "capabilities")
         [] msg.type = "ConnectionAccepted" ->
              /\ PayloadStr(msg, "connectionId")
              /\ Has(msg, "payload") /\ Has(msg.payload, "serverInfo")
         [] msg.type = "ConnectionRejected" -> TruthyStr(msg, "reason")
         [] msg.type = "AIConversation" ->
              /\ (PayloadStr(msg, "sessionId") \/ PayloadStr(msg, "session_id"))
              /\ PayloadStr(msg, "role")
              /\ PayloadStr(msg, "content")
         [] msg.type = "TriggerSend" ->
              PayloadStr(msg, "sessionId") /\ PayloadStr(msg, "action")
         [] msg.type = "Echo" -> PayloadStr(msg, "message")
         [] msg.type \in {"Ping", "Pong"} -> TRUE
         [] OTHER -> FALSE

isSystemMessage(message) == message.type \in {"Ping", "Pong", "Echo"}
isAIMessage(message) == message.type \in {"AIConversation", "AskResponse", "TriggerSend"}

(* ------------------- Connection Server: outbound ---------------------- *)
\* randomUUID() for a message built for socket c alone: an identifier no other
\* message carries (the Bridge's conversions, sent to many, draw from nextId)
ReplyId(w, c) == 1000 * c + Len(w.sock[c].out) + 1

\* socket.send(serialized): the frame is appended to what the socket has written
Written(w, c, message) ==
  [w EXCEPT !.sock[c].out = Append(@, message)]

\* sendMessage returns the world and the boolean it returns; w.faulty holds
\* the sockets whose send() throws, which the catch turns into false
sendMessage(w, clientId, message) ==
  IF clientId \notin DOMAIN w.clients \/ w.sock[clientId].ready # "open"
  THEN [w |-> w, ok |-> FALSE]
  ELSE IF clientId \in w.faulty THEN [w |-> w, ok |-> FALSE]
  ELSE [w |-> Written(w, clientId, message), ok |-> TRUE]

(* ------------------------------ AI Bridge ----------------------------- *)
Null == [null |-> TRUE]
IsNull(m) == "null" \in DOMAIN m

\* index of connectionId in the client table, 0 when absent
RECURSIVE BIndexFrom(_, _, _)
BIndexFrom(bc, connectionId, i) ==
  IF i > Len(bc) THEN 0
  ELSE IF bc[i].connectionId = connectionId THEN i
  ELSE BIndexFrom(bc, connectionId, i + 1)
BIndex(bc, connectionId) == BIndexFrom(bc, connectionId, 1)
BHas(bc, connectionId) == BIndex(bc, connectionId) # 0

\* Map.set: an existing key keeps its place, a new key goes last
BSet(bc, client) ==
  IF BHas(bc, client.connectionId)
  THEN [bc EXCEPT ![BIndex(bc, client.connectionId)] = client]
  ELSE Append(bc, client)

\* Map.delete
BDelete(bc, connectionId) ==
  SelectSeq(bc, LAMBDA cl : cl.connectionId # connectionId)

\* Date.now(): the clock advances with every frame the server receives
Now(w) == w.clock

\* String.prototype.trim on the task texts of the model
Trim(t) == IF t \in {"", " "} THEN "" ELSE t

RECURSIVE FirstSession(_, _)
FirstSession(bc, i) ==
  IF i > Len(bc) THEN ""
  ELSE IF bc[i].sessionId # "" THEN bc[i].sessionId
  ELSE FirstSession(bc, i + 1)
\* the first client, in table order, that has a sessionId; "" for null
getActiveSessionId(w) == FirstSession(w.bclients, 1)

\* the orchestrator's "messageForClient" listener (setupAIBridgeHandlers)
onMessageForClient(w, connectionId, message) ==
  IF w.server # "none" THEN sendMessage(w, connectionId, message).w ELSE w

\* emit("messageForClient"): every subscribed listener runs, in order
RECURSIVE EmitTimes(_, _, _, _)
EmitTimes(w, connectionId, message, k) ==
  IF k = 0 THEN w
  ELSE EmitTimes(onMessageForClient(w, connectionId, message), connectionId, message, k - 1)
\* w.forClient lists the "messageForClient" events the Bridge has emitted
emitMessageForClient(w, connectionId, message) ==
  EmitTimes([w EXCEPT !.forClient = Append(@, [connectionId |-> connectionId,
                                               message |-> message])],
            connectionId, message, w.bridgeHandlers)

\* role of a task message on the wire
RoleOf(clineMessage) ==
  IF clineMessage.type = "ask" THEN "user"
  ELSE IF clineMessage.say \in {"text", "completion_result"} THEN "assistant"
  ELSE IF clineMessage.say \in {"error", "tool"} THEN "system"
  ELSE "assistant"

\* an object literal with its conditional spreads
Spread(r, cond, k, v) == IF cond THEN Put(r, k, v) ELSE r

\* mutant: a message whose text is blank is converted like any other
convertClineMessageToVision_KeepBlank(w, clineMessage) ==
  LET active == getActiveSessionId(w)
      sessionId == IF active # "" THEN active ELSE "current-session"
      baseMessage == aiConversation(w.nextId, sessionId, RoleOf(clineMessage),
                                    clineMessage.text,
                                    [timestamp |-> clineMessage.ts,
                                     messageId |-> clineMessage.ts,
                                     source |-> "roo-code",
                                     originalType |-> clineMessage.type],
                                    clineMessage.partial)
  IN ("isStreaming" :> (clineMessage.partial = "true"))
     @@ ("isFinal" :> (clineMessage.partial # "true"))
     @@ ("streamId" :> (IF clineMessage.id # 0 THEN clineMessage.id ELSE baseMessage.id))
     @@ ("chunkIndex" :> 0)
     @@ baseMessage

\* convertClineMessageToVision: the wire message, or Null; a message that is
\* built takes the fresh id w.nextId
convertClineMessageToVision(w, clineMessage) ==
  LET active == getActiveSessionId(w)
      sessionId == IF active # "" THEN active ELSE "current-session"
      content == clineMessage.text
      metadata ==
        Spread(Spread(Spread(
          [timestamp |-> clineMessage.ts, messageId |-> clineMessage.ts,
           source |-> "roo-code", originalType |-> clineMessage.type],
          clineMessage.say # "", "sayType", clineMessage.say),
          clineMessage.ask # "", "askType", clineMessage.ask),
          w.task # 0, "taskId", w.task)
      baseMessage == aiConversation(w.nextId, sessionId, RoleOf(clineMessage), content,
                                    metadata, clineMessage.partial)
  IN IF Trim(content) = "" THEN Null
     ELSE ("isStreaming" :> (clineMessage.partial = "true"))
          @@ ("isFinal" :> (clineMessage.partial # "true"))
          @@ ("streamId" :> (IF clineMessage.id # 0 THEN clineMessage.id ELSE baseMessage.id))
          @@ ("chunkIndex" :> 0)
          @@ baseMessage

\* the world after one conversion (the fresh id is used up when a message is built)
AfterConvert(w, visionMessage) ==
  IF IsNull(visionMessage) THEN w ELSE [w EXCEPT !.nextId = @ + 1]

RECURSIVE EmitToClients(_, _, _)
EmitToClients(w, visionMessage, i) ==
  IF i > Len(w.bclients) THEN w
  ELSE EmitToClients(emitMessageForClient(w, w.bclients[i].connectionId, visionMessage),
                     visionMessage, i + 1)

broadcastMessageToVisionClients(w, clineMessage) ==
  IF Len(w.bclients) = 0 THEN w
  ELSE LET visionMessage == convertClineMessageToVision(w, clineMessage)
       IN IF IsNull(visionMessage) THEN w
          ELSE EmitToClients(AfterConvert(w, visionMessage), visionMessage, 1)

RECURSIVE SyncFrom(_, _, _, _)
SyncFrom(w, connectionId, messages, i) ==
  IF i > Len(messages) THEN w
  ELSE LET visionMessage == convertClineMessageToVision(w, messages[i])
       IN SyncFrom(IF IsNull(visionMessage) THEN w
                   ELSE emitMessageForClient(AfterConvert(w, visionMessage),
                                             connectionId, visionMessage),
                   connectionId, messages, i + 1)

syncConversationHistory(w, connectionId) ==
  IF ~w.provider THEN w
  ELSE IF w.task = 0 THEN w
  ELSE SyncFrom(w, connectionId, w.log, 1)

registerClient(w, connectionId) ==
  LET client == [connectionId |-> connectionId,
                 connectedAt |-> Now(w),
                 lastActivity |-> Now(w),
                 syncedMessageCount |-> 0,
                 currentTaskId |-> 0,
                 sessionId |-> ""]
  IN syncConversationHistory([w EXCEPT !.bclients = BSet(@, client)], connectionId)

\* mutant: the record of a client that has gone is kept
unregisterClient_Keep(w, connectionId) == w

unregisterClient(w, connectionId) ==
  [w EXCEPT !.bclients = BDelete(@, connectionId)]

(* ---------------------- AI Bridge: inbound commands ------------------- *)
\* the acknowledgment built by MessageFactory.aiConversation
Ack(w, connectionId, sessionId, content, type, message, taskId) ==
  aiConversation(ReplyId(w, connectionId), sessionId, "assistant", content,
                 Spread([type |-> type, originalMessageId |-> message.id],
                        taskId # 0, "taskId", taskId),
                 "undefined")

\* the handler is suspended on a host operation: no response yet
Awaiting == [awaiting |-> TRUE]
IsAwaiting(r) == "awaiting" \in DOMAIN r

\* a host operation a handler of connection c awaits; at identifies the
\* client object the handler captured before the await
PendingOp(w, connectionId, kind, message) ==
  LET i == BIndex(w.bclients, connectionId)
  IN [conn |-> connectionId, n |-> Now(w), kind |-> kind,
      captured |-> IF i = 0 THEN 0 ELSE w.bclients[i].connectedAt,
      message |-> message]

\* createOrContinueTask up to its await: the world and the task result, or Awaiting
createOrContinueTask(w, connectionId, message) ==
  LET i == BIndex(w.bclients, connectionId)
  IN IF ~w.provider
     THEN [w |-> w, result |-> [success |-> FALSE, taskId |-> 0,
                                error |-> "Roo Code provider not available"]]
     ELSE IF i # 0 /\ w.bclients[i].currentTaskId # 0
             /\ w.task = w.bclients[i].currentTaskId
     THEN \* currentTask.handleWebviewAskResponse("messageResponse", content, [])
          [w |-> w, result |-> [success |-> TRUE, taskId |-> w.task, error |-> ""]]
     ELSE \* await this.provider.createTask(content, [], undefined, {...})
          [w |-> [w EXCEPT !.pending = @ \cup {PendingOp(w, connectionId, "createTask", message)}],
           result |-> Awaiting]

\* mutant: a failed task result is answered like a created task
TaskResponse_AlwaysCreated(w, connectionId, message, result) ==
  Ack(w, connectionId, message.payload.sessionId, "Task initiated successfully",
      "task_created", message, result.taskId)

\* the response to a user message once the task result is known
TaskResponse(w, connectionId, message, result) ==
  Ack(w, connectionId, message.payload.sessionId,
      IF result.success THEN "Task initiated successfully" ELSE "Error",
      IF result.success THEN "task_created" ELSE "error",
      message, result.taskId)

\* processAIConversation up to its first await
processAIConversation(w, connectionId, message) ==
  LET i == BIndex(w.bclients, connectionId)
      w1 == IF i = 0 THEN w
            ELSE [w EXCEPT !.bclients[i].lastActivity = Now(w),
                           !.bclients[i].sessionId = message.payload.sessionId]
  IN IF message.payload.role = "user"
     THEN LET r == createOrContinueTask(w1, connectionId, message)
          IN IF IsAwaiting(r.result) THEN [w |-> r.w, response |-> Awaiting]
             ELSE [w |-> r.w, response |-> TaskResponse(r.w, connectionId, message, r.result)]
     ELSE [w |-> w1,
           response |-> Ack(w1, connectionId, message.payload.sessionId, "Message received",
                            "acknowledgment", message, 0)]

\* the reply of processTriggerSend once the host has been told
TriggerResult(w, connectionId, message) ==
  aiConversation(ReplyId(w, connectionId), message.payload.sessionId, "assistant",
                 IF message.payload.action = "send"
                 THEN "Send action triggered" ELSE "Operation cancelled",
                 [type |-> IF message.payload.action = "send"
                           THEN "trigger_result" ELSE "cancel_result",
                  success |-> TRUE,
                  originalMessageId |-> message.id],
                 "undefined")

\* the reply of processTriggerSend's catch block
TriggerError(w, connectionId, message, error) ==
  aiConversation(ReplyId(w, connectionId), message.payload.sessionId, "assistant",
                 "Error processing trigger",
                 [type |-> "error", error |-> error, originalMessageId |-> message.id],
                 "undefined")

\* processTriggerSend up to its first await; this.provider?.postMessageToWebview
\* calls nothing when the Bridge has no provider
processTriggerSend(w, connectionId, message) ==
  IF message.payload.action \in {"send", "cancel"}
  THEN IF w.provider
       THEN \* await this.provider.postMessageToWebview(...)
            [w |-> [w EXCEPT !.pending = @ \cup {PendingOp(w, connectionId, "postMessage", message)}],
             response |-> Awaiting]
       ELSE [w |-> w, response |-> TriggerResult(w, connectionId, message)]
  ELSE [w |-> w,
        response |-> TriggerError(w, connectionId, message, "Unknown trigger action")]

(* ----------------------- orchestrator handlers ------------------------ *)
\* the tail of handleMessage: send the response back to the client
SendResponse(w, connectionId, response) ==
  IF w.server = "none" THEN w
  ELSE sendMessage(w, connectionId, response).w

\* VisionSyncService.handleMessage up to its first await that suspends
serviceHandleMessage(w, connectionId, message) ==
  IF w.server = "none" THEN w
  ELSE IF connectionId \notin DOMAIN w.clients THEN w
  ELSE IF ~isAIMessage(message) THEN w
  ELSE LET w1 == registerClient(w, connectionId)
       IN IF message.type = "AIConversation"
          THEN LET r == processAIConversation(w1, connectionId, message)
               IN IF IsAwaiting(r.response) THEN r.w
                  ELSE SendResponse(r.w, connectionId, r.response)
          ELSE IF message.type = "TriggerSend"
          THEN LET r == processTriggerSend(w1, connectionId, message)
               IN IF IsAwaiting(r.response) THEN r.w
                  ELSE SendResponse(r.w, connectionId, r.response)
          ELSE w1   \* "Unhandled AI message type"

handleClientDisconnection(w, connectionId) == unregisterClient(w, connectionId)

\* this.emit(event, data) on the Connection Server, as the embedding
\* application's listener observes it; written is the number of frames the
\* client's socket had written when the event was emitted
Emit(w, clientId, event, data) ==
  [w EXCEPT !.emitted = Append(@, [event |-> event, data |-> data,
                                   written |-> Len(w.sock[clientId].out)])]

\* emit(...) on the Connection Server: the orchestrator's subscribed handler runs
emitMessageReceived(w, connectionId, message) ==
  LET w1 == Emit(w, connectionId, "messageReceived",
                 [connectionId |-> connectionId, message |-> message])
  IN IF "messageReceived" \in w.wsHandlers
     THEN serviceHandleMessage(w1, connectionId, message) ELSE w1

emitClientDisconnected(w, connectionId) ==
  IF "clientDisconnected" \in w.wsHandlers
  THEN handleClientDisconnection(w, connectionId) ELSE w

emitClientConnected(w, clientId) ==
  Emit(w, clientId, "clientConnected", [connection |-> w.clients[clientId]])

emitError(w, clientId, context) ==
  Emit(w, clientId, "error", [context |-> context])

(* ------------------- Connection Server: handlers ---------------------- *)
NewSocket == [ready |-> "idle", code |-> 0, reason |-> "", out |-> <<>>]
\* a socket that has closed is gone, with what it had written
ClosedSocket == [ready |-> "closed", code |-> 0, reason |-> "", out |-> <<>>]

\* mutant: the capacity test lets one connection too many in
handleConnection_OffByOne(w, s) ==
  IF Cardinality(DOMAIN w.clients) > w.config.maxConnections
  THEN [w EXCEPT !.sock[s] = [@ EXCEPT !.ready = "closing", !.code = 1013,
                                       !.reason = "Server at maximum capacity",
                                       !.out = <<connectionRejected(ReplyId(w, s),
                                                   "Server at maximum capacity")>>]]
  ELSE [w EXCEPT !.sock[s].ready = "open",
                 !.clients = Put(@, s, [id |-> s, clientType |-> "unknown",
                                         version |-> "unknown", capabilities |-> <<>>,
                                         lastActivity |-> 0, state |-> CONNECTING,
                                         lastPing |-> 0]),
                 !.timers = @ \cup {s}]

\* mutant: the rejected socket is told so but left open
handleConnection_NoClose(w, s) ==
  IF Cardinality(DOMAIN w.clients) >= w.config.maxConnections
  THEN [w EXCEPT !.sock[s] = [@ EXCEPT !.ready = "open",
                                       !.out = <<connectionRejected(ReplyId(w, s),
                                                   "Server at maximum capacity")>>]]
  ELSE [w EXCEPT !.sock[s].ready = "open",
                 !.clients = Put(@, s, [id |-> s, clientType |-> "unknown",
                                         version |-> "unknown", capabilities |-> <<>>,
                                         lastActivity |-> 0, state |-> CONNECTING,
                                         lastPing |-> 0]),
                 !.timers = @ \cup {s}]

\* mutant: only Connected records count towards the capacity
handleConnection_CountConnected(w, s) ==
  IF Cardinality({c \in DOMAIN w.clients : w.clients[c].state = CONNECTED}) >= w.config.maxConnections
  THEN [w EXCEPT !.sock[s] = [@ EXCEPT !.ready = "closing", !.code = 1013,
                                       !.reason = "Server at maximum capacity",
                                       !.out = <<connectionRejected(ReplyId(w, s),
                                                   "Server at maximum capacity")>>]]
  ELSE [w EXCEPT !.sock[s].ready = "open",
                 !.clients = Put(@, s, [id |-> s, clientType |-> "unknown",
                                         version |-> "unknown", capabilities |-> <<>>,
                                         lastActivity |-> 0, state |-> CONNECTING,
                                         lastPing |-> 0]),
                 !.timers = @ \cup {s}]

handleConnection(w, s) ==
  IF Cardinality(DOMAIN w.clients) >= w.config.maxConnections
  THEN [w EXCEPT !.sock[s] = [@ EXCEPT !.ready = "closing", !.code = 1013,
                                       !.reason = "Server at maximum capacity",
                                       !.out = <<connectionRejected(ReplyId(w, s),
                                                   "Server at maximum capacity")>>]]
  ELSE [w EXCEPT !.sock[s].ready = "open",
                 !.clients = Put(@, s, [id |-> s, clientType |-> "unknown",
                                         version |-> "unknown", capabilities |-> <<>>,
                                         lastActivity |-> 0, state |-> CONNECTING,
                                         lastPing |-> 0]),
                 !.timers = @ \cup {s}]

\* mutant: the disconnection is announced whether or not the record is still held
disconnectClient_NoGuard(w, clientId, reason) ==
  LET w1 == [w EXCEPT !.timers = @ \ {clientId}, !.clients = Remove(@, clientId)]
  IN emitClientDisconnected(
       Emit(w1, clientId, "clientDisconnected",
            [connectionId |-> clientId, reason |-> reason]), clientId)

\* what a socket has written is followed while the server holds its connection
disconnectClient(w, clientId, reason) ==
  IF clientId \notin DOMAIN w.clients THEN w
  ELSE LET w1 == [w EXCEPT !.timers = @ \ {clientId}]
           w2 == IF w1.sock[clientId].ready = "open"
                 THEN [w1 EXCEPT !.sock[clientId].ready = "closing",
                                 !.sock[clientId].code = 1000,
                                 !.sock[clientId].reason = reason,
                                 !.sock[clientId].out = <<>>]
                 ELSE w1
           w3 == [w2 EXCEPT !.clients = Remove(@, clientId)]
       IN emitClientDisconnected(
            Emit(w3, clientId, "clientDisconnected",
                 [connectionId |-> clientId, reason |-> reason]), clientId)

\* mutant: the handshake is answered but the state is left as it was
handleHandshake_NoState(w, clientId, message) ==
  IF clientId \notin DOMAIN w.clients THEN w
  ELSE LET w1 == [w EXCEPT !.clients[clientId].clientType = message.clientType,
                           !.clients[clientId].version = message.version,
                           !.clients[clientId].capabilities = message.capabilities]
       IN sendMessage(w1, clientId,
                      connectionAccepted(ReplyId(w1, clientId), clientId)).w

\* mutant: CLIENT_CONNECTED is emitted before the handshake is answered
handleHandshake_EmitFirst(w, clientId, message) ==
  IF clientId \notin DOMAIN w.clients THEN w
  ELSE LET w1 == [w EXCEPT !.clients[clientId].clientType = message.clientType,
                           !.clients[clientId].version = message.version,
                           !.clients[clientId].capabilities = message.capabilities,
                           !.clients[clientId].state = CONNECTED]
           w2 == emitClientConnected(w1, clientId)
       IN sendMessage(w2, clientId,
                      connectionAccepted(ReplyId(w2, clientId), clientId)).w

handleHandshake(w, clientId, message) ==
  IF clientId \notin DOMAIN w.clients THEN w
  ELSE LET w1 == [w EXCEPT !.clients[clientId].clientType = message.clientType,
                           !.clients[clientId].version = message.version,
                           !.clients[clientId].capabilities = message.capabilities,
                           !.clients[clientId].state = CONNECTED]
           w2 == sendMessage(w1, clientId,
                             connectionAccepted(ReplyId(w1, clientId), clientId)).w
       IN emitClientConnected(w2, clientId)

processMessage(w, clientId, message) ==
  IF clientId \notin DOMAIN w.clients THEN w
  ELSE CASE message.type = "ClientHandshake" -> handleHandshake(w, clientId, message)
         [] message.type = "Ping" ->
              sendMessage(w, clientId, pong(ReplyId(w, clientId))).w
         [] message.type = "Echo" ->
              sendMessage(w, clientId,
                          echo(ReplyId(w, clientId), message.payload.message)).w
         [] OTHER -> w

\* mutant: the activity stamp is written before the frame is validated
handleMessage_StampFirst(w, clientId, data) ==
  IF clientId \notin DOMAIN w.clients THEN w
  ELSE LET message == deserializeMessage(data, Now(w))
           w1 == [w EXCEPT !.clients[clientId].lastActivity = Now(w)]
       IN IF ~validateMessage(message)
          THEN emitError(w1, clientId, "Message processing")
          ELSE processMessage(emitMessageReceived(w1, clientId, message), clientId, message)

\* VisionWebSocketServer.handleMessage; a frame that fails to decode or to
\* validate only emits ERROR
handleMessage(w, clientId, data) ==
  IF clientId \notin DOMAIN w.clients THEN w
  ELSE LET message == deserializeMessage(data, Now(w))
       IN IF ~validateMessage(message) THEN emitError(w, clientId, "Message processing")
          ELSE LET w1 == [w EXCEPT !.clients[clientId].lastActivity = Now(w)]
                   w2 == emitMessageReceived(w1, clientId, message)
               IN processMessage(w2, clientId, message)

handleDisconnection(w, clientId, reason) == disconnectClient(w, clientId, reason)

handleSocketError(w, clientId, error) ==
  disconnectClient(emitError(w, clientId, "Socket error"), clientId, error)

handlePong(w, clientId) ==
  IF clientId \in DOMAIN w.clients THEN [w EXCEPT !.clients[clientId].lastPing = 0] ELSE w

\* mutant: the timeout allows one more missed ping
sendPing_OneMoreTick(w, clientId) ==
  IF clientId \notin DOMAIN w.clients THEN w
  ELSE IF w.clients[clientId].lastPing > 2 * pingInterval + pongTimeout
  THEN disconnectClient(w, clientId, "Ping timeout")
  ELSE w

\* sendPing at a tick of the client's interval; lastPing holds Date.now() - lastPing
sendPing(w, clientId) ==
  IF clientId \notin DOMAIN w.clients THEN w
  ELSE IF w.clients[clientId].lastPing > pingInterval + pongTimeout
  THEN disconnectClient(w, clientId, "Ping timeout")
  ELSE w

\* mutant: the loop ends at the first send that fails
broadcast_StopAtFailure(w, message) ==
  LET RECURSIVE Each(_, _)
      Each(r, ids) ==
        IF ids = {} THEN r
        ELSE LET c == CHOOSE x \in ids : \A y \in ids : x <= y
                 sent == sendMessage(r.w, c, message)
             IN IF sent.ok
                THEN Each([w |-> sent.w, sentCount |-> r.sentCount + 1], ids \ {c})
                ELSE r
  IN Each([w |-> w, sentCount |-> 0], DOMAIN w.clients)

\* broadcast returns the world and the count it returns
broadcast(w, message) ==
  LET RECURSIVE Each(_, _)
      Each(r, ids) ==
        IF ids = {} THEN r
        ELSE LET c == CHOOSE x \in ids : \A y \in ids : x <= y
                 sent == sendMessage(r.w, c, message)
             IN Each([w |-> sent.w,
                      sentCount |-> IF sent.ok THEN r.sentCount + 1 ELSE r.sentCount],
                     ids \ {c})
  IN Each([w |-> w, sentCount |-> 0], DOMAIN w.clients)

\* stop(): every client is disconnected, then the server socket is closed
stop(w) ==
  IF ~w.running \/ w.server = "none" THEN w
  ELSE LET RECURSIVE Each(_, _)
           Each(ww, ids) ==
             IF ids = {} THEN ww
             ELSE LET c == CHOOSE x \in ids : \A y \in ids : x <= y
                  IN Each(disconnectClient(ww, c, "Server shutdown"), ids \ {c})
       IN [Each(w, DOMAIN w.clients) EXCEPT !.server = "closing"]

(* ------------------------------ inputs -------------------------------- *)
HandshakeTop ==
  [type |-> "ClientHandshake", clientType |-> "visionOS", version |-> "1.0.0",
   capabilities |-> <<>>]
HandshakeNested ==
  [type |-> "ClientHandshake", timestamp |-> 7, id |-> "m0",
   payload |-> [clientType |-> "tvOS", version |-> "2.0", capabilities |-> <<"echo">>]]
PingFrame == [type |-> "Ping", timestamp |-> 7, id |-> "m1"]
MalformedFrame == [malformed |-> TRUE]
\* an Echo as a client sends it; the decoder supplies timestamp and id
EchoFrame(message) == [type |-> "Echo", payload |-> [message |-> message]]
UserFrame(sessionId) ==
  [type |-> "AIConversation", timestamp |-> 7, id |-> "m3",
   payload |-> [sessionId |-> sessionId, role |-> "user", content |-> "hello"]]
AssistantFrame ==
  [type |-> "AIConversation", timestamp |-> 7, id |-> "m4",
   payload |-> [session_id |-> "s1", role |-> "assistant", content |-> "note"]]
TriggerFrame ==
  [type |-> "TriggerSend", timestamp |-> 7, id |-> "m5",
   payload |-> [sessionId |-> "s2", action |-> "send"]]
AskResponseFrame ==
  [type |-> "AskResponse", timestamp |-> 7, id |-> "m6",
   payload |-> [sessionId |-> "s1", askResponse |-> "yesButtonClicked"]]

\* frames that fail to decode or to validate: malformed JSON, an unknown type,
\* an AIConversation without content, a TriggerSend without action
BogusFrame == [type |-> "Bogus", timestamp |-> 7, id |-> "m7"]
NoContentFrame ==
  [type |-> "AIConversation", timestamp |-> 7, id |-> "m8",
   payload |-> [sessionId |-> "s1", role |-> "user"]]
NoActionFrame ==
  [type |-> "TriggerSend", timestamp |-> 7, id |-> "m9", payload |-> [sessionId |-> "s1"]]
BadFrames == {MalformedFrame, BogusFrame, NoContentFrame, NoActionFrame}

\* frames sent to the stand-alone Connection Server
ServerFrames ==
  {HandshakeTop, HandshakeNested, PingFrame, MalformedFrame, TriggerFrame}
\* frames sent to the running system
Frames ==
  {HandshakeTop, UserFrame("s1"), AssistantFrame, TriggerFrame, AskResponseFrame}

\* a message the embedding application hands to broadcast()
AppMessage ==
  aiConversation(99, "current-session", "assistant", "notice", [source |-> "app"],
                 "undefined")

Texts == {" ", "Hi"}
\* streamed text only grows
TextRank(t) == IF t = " " THEN 0 ELSE 1

\* what the protocol (not the decoder) calls a ClientHandshake / an AI-typed message
IsHandshakeFrame(data) == TruthyStr(data, "type") /\ data.type = "ClientHandshake"
IsAIFrame(data) ==
  /\ TruthyStr(data, "type")
  /\ Has(data, "payload")
  /\ \/ /\ data.type = "AIConversation"
        /\ TruthyStr(data.payload, "sessionId") \/ TruthyStr(data.payload, "session_id")
        /\ TruthyStr(data.payload, "role")
        /\ data.payload.role \in {"user", "assistant", "system"}
        /\ TruthyStr(data.payload, "content")
     \/ /\ data.type = "AskResponse"
        /\ TruthyStr(data.payload, "sessionId")
        /\ TruthyStr(data.payload, "askResponse")
        /\ data.payload.askResponse \in
             {"yesButtonClicked", "noButtonClicked", "messageResponse", "objectResponse"}
     \/ /\ data.type = "TriggerSend"
        /\ TruthyStr(data.payload, "sessionId")
        /\ TruthyStr(data.payload, "action")
        /\ data.payload.action \in {"send", "cancel"}

(* ------------------------------ actions ------------------------------- *)
\* the histories are kept for the connections the server still holds
KeepHistory ==
  /\ handshaken' = handshaken \cap DOMAIN clients'
  /\ sentAI' = sentAI \cap DOMAIN clients'

\* the server's "connection" event for the next socket the remote side opens
Accept ==
  /\ server = "listening"
  /\ \E s \in SocketIds :
       /\ sock[s].ready = "idle"
       /\ \A t \in SocketIds : t < s => sock[t].ready # "idle"
       /\ Commit(handleConnection(World, s))
  /\ KeepHistory

\* a socket's "message" event
Receive(F) ==
  \E c \in DOMAIN clients, data \in F :
    /\ sock[c].ready = "open"
    /\ clock < MaxFrames
    /\ Commit(handleMessage([World EXCEPT !.clock = @ + 1], c, data))
    /\ handshaken' = (IF IsHandshakeFrame(data) THEN handshaken \cup {c} ELSE handshaken)
                       \cap DOMAIN clients'
    /\ sentAI' = (IF IsAIFrame(data) THEN sentAI \cup {c} ELSE sentAI) \cap DOMAIN clients'

ReceiveServer == Receive(ServerFrames)
ReceiveFrame == Receive(Frames)

\* the remote side starts closing an open socket
PeerClose ==
  \E s \in SocketIds :
    /\ sock[s].ready = "open"
    /\ sock' = [sock EXCEPT ![s].ready = "closing"]
    /\ UNCHANGED <<running, server, provider, clients, timers, nextId, clock, wsHandlers,
                   bridgeHandlers, bclients, pending, task, tasksCreated, log,
                   taskListeners, handshaken, sentAI, svc, config, codec, scan>>

\* a socket's "close" event
SocketClose ==
  \E s \in SocketIds :
    /\ sock[s].ready = "closing"
    /\ Commit(handleDisconnection([World EXCEPT !.sock[s] = ClosedSocket], s, "Code"))
    /\ KeepHistory

\* a socket's "error" event
SocketError ==
  \E c \in DOMAIN clients :
    /\ sock[c].ready = "open"
    /\ Commit(handleSocketError(World, c, "socket error"))
    /\ KeepHistory

\* a socket's "pong" event
PongEvent ==
  \E c \in DOMAIN clients :
    /\ sock[c].ready = "open"
    /\ clients[c].lastPing # 0
    /\ Commit(handlePong(World, c))
    /\ KeepHistory

\* the world at a tick of c's interval, pingInterval after the previous one
AtTick(c) ==
  IF c \in DOMAIN clients
  THEN [World EXCEPT !.clients[c].lastPing = @ + pingInterval]
  ELSE World

\* a tick of client c's heartbeat interval
Tick(c) ==
  /\ c \in timers
  /\ Commit(sendPing(AtTick(c), c))
  /\ KeepHistory

Heartbeat == \E c \in SocketIds : Tick(c)

\* broadcast(message) called by the embedding application; a connection is
\* sent the application's message once
Broadcast ==
  /\ server = "listening"
  /\ clients # << >>
  /\ \A c \in DOMAIN clients : \A i \in 1..Len(sock[c].out) : sock[c].out[i] # AppMessage
  /\ Commit(broadcast(World, AppMessage).w)
  /\ KeepHistory

Stop ==
  /\ running /\ server = "listening"
  /\ Commit(stop(World))
  /\ KeepHistory

\* the callback of server.close()
StopClosed ==
  /\ server = "closing"
  /\ running' = FALSE
  /\ server' = "none"
  /\ UNCHANGED <<provider, clients, timers, sock, nextId, clock, wsHandlers, bridgeHandlers,
                 bclients, pending, task, tasksCreated, log, taskListeners,
                 handshaken, sentAI, svc, config, codec, scan>>

(* --------------------------- host actions ----------------------------- *)
\* setupTaskMessageListener: the task's listener replaces the one it had
setupTaskMessageListener(w, taskId) == [w EXCEPT !.taskListeners = @ \cup {taskId}]

\* the provider creates a task and emits TaskCreated
TaskCreated(w) ==
  LET w1 == [w EXCEPT !.tasksCreated = @ + 1, !.task = w.tasksCreated + 1, !.log = <<>>]
  IN IF w1.provider THEN setupTaskMessageListener(w1, w1.task) ELSE w1

\* mutant: the listener forwards a message when it is created and drops its updates
messageListener_CreatedOnly(w, action, clineMessage) ==
  IF w.task \in w.taskListeners /\ action = "created"
  THEN broadcastMessageToVisionClients(w, clineMessage)
  ELSE w

\* the task's "Message" event as the Bridge's listener sees it
messageListener(w, action, clineMessage) ==
  IF w.task \in w.taskListeners /\ action \in {"created", "updated"}
  THEN broadcastMessageToVisionClients(w, clineMessage)
  ELSE w

\* the user starts a task in the editor
HostNewTask ==
  /\ tasksCreated < MaxTasks
  /\ Commit(TaskCreated(World))
  /\ KeepHistory

ClineMessage(ts, hasId, type, text, partial) ==
  [ts |-> ts, id |-> IF hasId THEN 100 + ts ELSE 0, type |-> type,
   say |-> IF type = "say" THEN "text" ELSE "",
   ask |-> IF type = "ask" THEN "followup" ELSE "",
   text |-> text, partial |-> partial]

\* the messages a task adds to its log: a stream that opens blank and carries
\* an id, a stream without an id, and a complete question
NewMessages ==
  { [hasId |-> TRUE,  type |-> "say", text |-> " ",  partial |-> "true"],
    [hasId |-> FALSE, type |-> "say", text |-> "Hi", partial |-> "true"],
    [hasId |-> TRUE,  type |-> "ask", text |-> "Hi", partial |-> "undefined"] }

\* the task adds a message to its log
HostSay ==
  /\ task # 0
  /\ Len(log) < MaxLog
  /\ Len(log) > 0 => log[Len(log)].partial # "true"
  /\ \E n \in NewMessages :
       LET m == ClineMessage(10 * task + Len(log) + 1, n.hasId, n.type, n.text, n.partial)
       IN Commit(messageListener([World EXCEPT !.log = Append(@, m)], "created", m))
  /\ KeepHistory

\* the task updates its last, streaming, message
HostUpdate ==
  /\ task # 0
  /\ Len(log) > 0
  /\ log[Len(log)].partial = "true"
  /\ \E text \in Texts, partial \in {"true", "false"} :
       LET old == log[Len(log)]
           m == [old EXCEPT !.text = text, !.partial = partial]
       IN /\ TextRank(text) >= TextRank(old.text)
          /\ m # old
          /\ Commit(messageListener([World EXCEPT !.log[Len(log)] = m], "updated", m))
  /\ KeepHistory

\* the client object a suspended handler captured is still the registered one
Captured(w, p) ==
  LET i == BIndex(w.bclients, p.conn)
  IN IF i # 0 /\ p.captured # 0 /\ w.bclients[i].connectedAt = p.captured THEN i ELSE 0

\* provider.createTask has resolved with a new task: createOrContinueTask
\* and handleMessage resume for the pending operation p
createTaskResolved(w, p) ==
  LET w1 == TaskCreated([w EXCEPT !.pending = @ \ {p}])
      i == Captured(w1, p)
      w2 == IF i # 0 THEN [w1 EXCEPT !.bclients[i].currentTaskId = w1.task] ELSE w1
      result == [success |-> TRUE, taskId |-> w1.task, error |-> ""]
  IN SendResponse(w2, p.conn, TaskResponse(w2, p.conn, p.message, result))

\* provider.createTask has thrown, or resolved with no task
createTaskRejected(w, p) ==
  LET w1 == [w EXCEPT !.pending = @ \ {p}]
      result == [success |-> FALSE, taskId |-> 0, error |-> "Failed to create task"]
  IN SendResponse(w1, p.conn, TaskResponse(w1, p.conn, p.message, result))

\* provider.postMessageToWebview has resolved: processTriggerSend and
\* handleMessage resume
postMessageResolved(w, p) ==
  LET w1 == [w EXCEPT !.pending = @ \ {p}]
  IN SendResponse(w1, p.conn, TriggerResult(w1, p.conn, p.message))

\* provider.postMessageToWebview has rejected
postMessageRejected(w, p) ==
  LET w1 == [w EXCEPT !.pending = @ \ {p}]
  IN SendResponse(w1, p.conn, TriggerError(w1, p.conn, p.message, "postMessage failed"))

\* provider.createTask resolves with a new task; createOrContinueTask and
\* handleMessage resume
CreateTaskDone ==
  \E p \in pending :
    /\ p.kind = "createTask"
    /\ tasksCreated < MaxTasks
    /\ Commit(createTaskResolved(World, p))
    /\ KeepHistory

\* provider.createTask throws, or resolves with no task
CreateTaskFail ==
  \E p \in pending :
    /\ p.kind = "createTask"
    /\ Commit(createTaskRejected(World, p))
    /\ KeepHistory

\* provider.postMessageToWebview resolves; processTriggerSend and handleMessage resume
PostMessageDone ==
  \E p \in pending :
    /\ p.kind = "postMessage"
    /\ Commit(postMessageResolved(World, p))
    /\ KeepHistory

\* provider.postMessageToWebview rejects
PostMessageFail ==
  \E p \in pending :
    /\ p.kind = "postMessage"
    /\ Commit(postMessageRejected(World, p))
    /\ KeepHistory

(* ------------------------------ service ------------------------------ *)
\* no frame is being followed through the codec
NoCodec == [stage |-> "none"]
\* no port scan is being followed
NoScan == [stage |-> "none"]

\* DEFAULT_VISION_SYNC_CONFIG, with the cap of the model
DefaultConfig == [enabled |-> TRUE, maxConnections |-> maxConnections]

\* new VisionSyncService(config): nothing started, no call in flight.
\* websocketServer/discoveryServer: the field is not null; discovery: the
\* Discovery Endpoint's server; calls: the calls suspended at an await; made,
\* results, started, stopped: the calls made, how each settled, and the
\* SERVICE_STARTED / SERVICE_STOPPED events the service has emitted
NewService ==
  [isRunning |-> FALSE, websocketServer |-> FALSE, discoveryServer |-> FALSE,
   discovery |-> "none", cleanupInterval |-> FALSE,
   calls |-> {}, made |-> 0, results |-> {}, started |-> 0, stopped |-> 0]

\* the service after a start() that went as intended
RunningService ==
  [NewService EXCEPT !.isRunning = TRUE, !.websocketServer = TRUE,
                     !.discoveryServer = TRUE, !.discovery = "listening",
                     !.cleanupInterval = TRUE, !.started = 1]

\* call n of start() or stop(), suspended; a stop() awaited by the catch of
\* start() carries the error start() will rethrow
Call(n, kind, error) == [n |-> n, kind |-> kind, error |-> error]

\* the promise of call n settles: "resolved", or the error it rejects with
Settle(w, n, kind, outcome) ==
  [w EXCEPT !.svc.results = @ \cup {[n |-> n, kind |-> kind, outcome |-> outcome]}]

\* VisionAIBridge.initialize(provider): the provider is kept, and the task it
\* has, if any, gets the Bridge's listener
initialize(w) ==
  LET w1 == [w EXCEPT !.provider = TRUE]
  IN IF w1.task # 0 THEN setupTaskMessageListener(w1, w1.task) ELSE w1

\* VisionWebSocketServer.start(): the guard, then the listening socket is created
serverStart(w) ==
  IF w.running THEN [w |-> w, threw |-> TRUE]
  ELSE [w |-> [w EXCEPT !.server = "starting"], threw |-> FALSE]

\* VisionDiscoveryServer.stop(): server.close(callback)
discoveryStop(w) ==
  IF w.svc.discovery = "none" THEN w ELSE [w EXCEPT !.svc.discovery = "closing"]

\* mutant: stop() leaves the cleanup timer armed
serviceStop_KeepTimer(w) ==
  IF ~w.svc.isRunning THEN [w |-> w, awaiting |-> FALSE]
  ELSE LET w2 == IF w.svc.websocketServer THEN stop(w) ELSE w
           w3 == IF w2.svc.discoveryServer THEN discoveryStop(w2) ELSE w2
       IN [w |-> w3, awaiting |-> TRUE]

\* VisionSyncService.stop() up to its await Promise.all(stopPromises)
serviceStop(w) ==
  IF ~w.svc.isRunning THEN [w |-> w, awaiting |-> FALSE]
  ELSE LET w1 == [w EXCEPT !.svc.cleanupInterval = FALSE]
           w2 == IF w1.svc.websocketServer THEN stop(w1) ELSE w1
           w3 == IF w2.svc.discoveryServer THEN discoveryStop(w2) ELSE w2
       IN [w |-> w3, awaiting |-> TRUE]

\* VisionSyncService.stop() after its await: the fields are reset and
\* SERVICE_STOPPED is emitted
stopResume(w, call) ==
  LET w1 == [w EXCEPT !.svc.websocketServer = FALSE,
                      !.svc.discoveryServer = FALSE,
                      !.svc.isRunning = FALSE,
                      !.svc.stopped = @ + 1,
                      !.svc.calls = @ \ {call}]
  IN IF call.error = "" THEN Settle(w1, call.n, "stop", "resolved")
     ELSE Settle(w1, call.n, "start", call.error)

\* this.websocketServer = new VisionWebSocketServer(port, maxConnections): a
\* server that is not started, holds nothing and has no listener
newWebSocketServer(w) ==
  [w EXCEPT !.svc.websocketServer = TRUE,
            !.running = FALSE, !.server = "none",
            !.clients = << >>, !.timers = {}, !.wsHandlers = {}]

\* setupWebSocketEventHandlers: .on(CLIENT_CONNECTED, ...) installs the first
\* handler and returns the emitter, which the next parenthesis calls as a
\* function: a TypeError is thrown before the other three are installed
setupWebSocketEventHandlers(w) ==
  IF ~w.svc.websocketServer THEN [w |-> w, threw |-> FALSE]
  ELSE [w |-> [w EXCEPT !.wsHandlers = @ \cup {"clientConnected"}], threw |-> TRUE]

\* the catch of start(): await this.stop(), then the error is rethrown
startFailed(w, call, error) ==
  LET r == serviceStop(w)
  IN IF r.awaiting THEN [r.w EXCEPT !.svc.calls = @ \cup {Call(call.n, "stop", error)}]
     ELSE Settle(r.w, call.n, "start", error)

\* mutant: start() goes ahead on a service that is running
serviceStart_NoGuard(w, withProvider, n) ==
  LET w1 == IF withProvider THEN initialize(w) ELSE w
  IN [w1 EXCEPT !.svc.calls = @ \cup {Call(n, "start", "")}]

\* VisionSyncService.start(provider?) up to its first await
serviceStart(w, withProvider, n) ==
  IF w.svc.isRunning THEN Settle(w, n, "start", "VisionSync service is already running")
  ELSE LET w1 == IF withProvider THEN initialize(w) ELSE w
       IN [w1 EXCEPT !.svc.calls = @ \cup {Call(n, "start", "")}]

\* start() after getNetworkInfo() and the two port scans; free: both scans
\* found a port.  The statements after setupWebSocketEventHandlers() are
\* never executed, because that call always throws
startResume(w, call, free) ==
  LET w0 == [w EXCEPT !.svc.calls = @ \ {call}]
  IN IF ~free THEN startFailed(w0, call, "Unable to find available ports")
     ELSE LET r == setupWebSocketEventHandlers(newWebSocketServer(w0))
          IN IF r.threw THEN startFailed(r.w, call, "TypeError") ELSE r.w

\* setupAIBridgeHandlers: one more listener of "messageForClient" on the
\* Bridge, which the service keeps from its construction on
setupAIBridgeHandlers(w) == [w EXCEPT !.bridgeHandlers = @ + 1]

\* start() after its awaits as it runs when setupWebSocketEventHandlers makes
\* its four registrations, which is the start() the running service of Init
\* has been through: both servers are started, the cleanup timer is armed
\* and SERVICE_STARTED is emitted
startWired(w, call, free) ==
  LET w0 == [w EXCEPT !.svc.calls = @ \ {call}]
  IN IF ~free THEN startFailed(w0, call, "Unable to find available ports")
     ELSE LET w1 == [newWebSocketServer(w0) EXCEPT !.wsHandlers = AllHandlers]
              r == serverStart(setupAIBridgeHandlers(w1))
          IN IF r.threw THEN startFailed(r.w, call, "Server is already running")
             ELSE Settle([r.w EXCEPT !.running = TRUE, !.server = "listening",
                                     !.svc.discoveryServer = TRUE,
                                     !.svc.discovery = "listening",
                                     !.svc.cleanupInterval = TRUE,
                                     !.svc.isRunning = TRUE,
                                     !.svc.started = @ + 1],
                         call.n, "start", "resolved")

\* the embedding application calls start()
ServiceStart ==
  /\ svc.made < MaxCalls
  /\ \E withProvider \in BOOLEAN :
       Commit(serviceStart([World EXCEPT !.svc.made = @ + 1], withProvider, svc.made + 1))
  /\ KeepHistory

\* the awaits of a start() in flight are over
StartScanned ==
  /\ \E call \in svc.calls, free \in BOOLEAN :
       /\ call.kind = "start"
       /\ Commit(startResume(World, call, free))
  /\ KeepHistory

\* the awaits of a start() in flight are over, the handlers get registered
StartWired ==
  /\ \E call \in svc.calls, free \in BOOLEAN :
       /\ call.kind = "start"
       /\ Commit(startWired(World, call, free))
  /\ KeepHistory

\* the embedding application calls stop()
ServiceStop ==
  /\ svc.made < MaxCalls
  /\ LET n == svc.made + 1
         r == serviceStop([World EXCEPT !.svc.made = n])
     IN Commit(IF r.awaiting THEN [r.w EXCEPT !.svc.calls = @ \cup {Call(n, "stop", "")}]
               ELSE Settle(r.w, n, "stop", "resolved"))
  /\ KeepHistory

\* the callback of the Discovery Endpoint's server.close()
DiscoveryClosed ==
  /\ svc.discovery = "closing"
  /\ Commit([World EXCEPT !.svc.discovery = "none"])
  /\ KeepHistory

\* both servers have reported closed: a stop() awaiting them resumes
StopSettled ==
  /\ server # "closing"
  /\ svc.discovery # "closing"
  /\ \E call \in svc.calls :
       /\ call.kind = "stop"
       /\ Commit(stopResume(World, call))
  /\ KeepHistory

(* --------------------------- specifications --------------------------- *)
\* new VisionWebSocketServer(port, maxConnections) after start() has resolved
InitServer ==
  /\ running = TRUE
  /\ server = "listening"
  /\ clients = << >>
  /\ timers = {}
  /\ sock = [s \in SocketIds |-> NewSocket]
  /\ nextId = 1
  /\ clock = 0
  /\ handshaken = {}
  /\ sentAI = {}

\* no orchestrator and no Bridge: the application's listeners only observe
InitAlone ==
  /\ InitServer
  /\ svc = NewService
  /\ config = DefaultConfig
  /\ codec = NoCodec
  /\ scan = NoScan
  /\ provider = FALSE
  /\ wsHandlers = {}
  /\ bridgeHandlers = 0
  /\ bclients = << >>
  /\ pending = {}
  /\ task = 0
  /\ tasksCreated = 0
  /\ log = << >>
  /\ taskListeners = {}

\* the running service: the Bridge initialised with a provider that has no
\* task yet, and the orchestrator's handlers subscribed
Init ==
  /\ InitServer
  /\ svc = RunningService
  /\ config = DefaultConfig
  /\ codec = NoCodec
  /\ scan = NoScan
  /\ provider = TRUE
  /\ wsHandlers = AllHandlers
  /\ bridgeHandlers = 1
  /\ bclients = << >>
  /\ pending = {}
  /\ task = 0
  /\ tasksCreated = 0
  /\ log = << >>
  /\ taskListeners = {}

\* a Connection Server built with room for every socket of the model
InitWide ==
  /\ InitServer
  /\ svc = NewService
  /\ config = [DefaultConfig EXCEPT !.maxConnections = MaxSockets]
  /\ codec = NoCodec
  /\ scan = NoScan
  /\ provider = FALSE
  /\ wsHandlers = {}
  /\ bridgeHandlers = 0
  /\ bclients = << >>
  /\ pending = {}
  /\ task = 0
  /\ tasksCreated = 0
  /\ log = << >>
  /\ taskListeners = {}

NextServer ==
  \/ Accept \/ ReceiveServer \/ PeerClose \/ SocketClose \/ SocketError
  \/ PongEvent \/ Heartbeat \/ Broadcast \/ Stop \/ StopClosed

SpecServer == InitAlone /\ [][NextServer]_vars

\* the Connection Server holding several connections at once
SpecBroadcast == InitWide /\ [][NextServer]_vars

\* an armed interval timer keeps firing until it is cleared
SpecServerLive ==
  InitAlone /\ [][NextServer]_vars /\ \A c \in SocketIds : WF_vars(Tick(c))

Next ==
  \/ Accept \/ ReceiveFrame \/ PeerClose \/ SocketClose \/ SocketError
  \/ HostNewTask \/ HostSay \/ HostUpdate
  \/ CreateTaskDone \/ CreateTaskFail \/ PostMessageDone \/ PostMessageFail

Spec == Init /\ [][Next]_vars

\* the service started without a provider (start() with no argument): the
\* handlers are subscribed but the Bridge was never initialised
InitNoProvider ==
  /\ InitServer
  /\ svc = RunningService
  /\ config = DefaultConfig
  /\ codec = NoCodec
  /\ scan = NoScan
  /\ provider = FALSE
  /\ wsHandlers = AllHandlers
  /\ bridgeHandlers = 1
  /\ bclients = << >>
  /\ pending = {}
  /\ task = 0
  /\ tasksCreated = 0
  /\ log = << >>
  /\ taskListeners = {}

\* new VisionSyncService(config), never started; the configuration enables the
\* service or not
InitConstructed ==
  /\ running = FALSE
  /\ server = "none"
  /\ clients = << >>
  /\ timers = {}
  /\ sock = [s \in SocketIds |-> NewSocket]
  /\ nextId = 1
  /\ clock = 0
  /\ handshaken = {}
  /\ sentAI = {}
  /\ svc = NewService
  /\ config \in {[DefaultConfig EXCEPT !.enabled = e] : e \in BOOLEAN}
  /\ codec = NoCodec
  /\ scan = NoScan
  /\ provider = FALSE
  /\ wsHandlers = {}
  /\ bridgeHandlers = 0
  /\ bclients = << >>
  /\ pending = {}
  /\ task = 0
  /\ tasksCreated = 0
  /\ log = << >>
  /\ taskListeners = {}

NextLifecycle == ServiceStart \/ StartScanned \/ ServiceStop

\* the service from its construction: start() and stop() as written
SpecLifecycle == InitConstructed /\ [][NextLifecycle]_vars

NextService ==
  \/ Accept \/ PeerClose \/ SocketClose \/ SocketError
  \/ ServiceStart \/ StartScanned \/ ServiceStop
  \/ StopClosed \/ DiscoveryClosed \/ StopSettled

\* the running service and the calls of start() and stop() made on it
SpecService == InitNoProvider /\ [][NextService]_vars

\* a server that is closing reports closed, and a stop() whose awaits are
\* over resumes
SpecServiceLive ==
  /\ InitNoProvider /\ [][NextService]_vars
  /\ WF_vars(StopClosed) /\ WF_vars(DiscoveryClosed) /\ WF_vars(StopSettled)

NextNoProvider ==
  \/ Accept \/ ReceiveFrame \/ PeerClose \/ SocketClose \/ SocketError

SpecNoProvider == InitNoProvider /\ [][NextNoProvider]_vars


\* the running service, stopped and started again while clients come and go
\* and the host task speaks
NextRestart ==
  \/ Accept \/ ReceiveFrame \/ PeerClose \/ SocketClose
  \/ HostNewTask \/ HostSay
  \/ ServiceStart \/ StartWired \/ ServiceStop
  \/ StopClosed \/ DiscoveryClosed \/ StopSettled

SpecRestart == Init /\ [][NextRestart]_vars

(* --------------------------- port scans ------------------------------- *)
\* the ports of the model: the default port and the ones after it
Ports == defaultPort..(defaultPort + MaxPorts - 1)

\* isPortAvailable(port): a probe server can listen on the port
isPortAvailable(busy, port) == port \notin busy

\* findAvailablePort(startPort): the first available port among startPort and
\* the maxAttempts - 1 ports after it, 0 standing for null
RECURSIVE ScanFrom(_, _, _)
ScanFrom(busy, startPort, i) ==
  IF i >= maxAttempts THEN 0
  ELSE IF isPortAvailable(busy, startPort + i) THEN startPort + i
  ELSE ScanFrom(busy, startPort, i + 1)
findAvailablePort(busy, startPort) == ScanFrom(busy, startPort, 0)

\* a configuration and the ports other programs hold when start() is called
InitPorts ==
  /\ InitServer
  /\ svc = NewService
  /\ config = DefaultConfig
  /\ codec = NoCodec
  /\ scan \in {[stage |-> "configured", config |-> [port |-> p, discoveryPort |-> d],
                busy |-> B] : p \in Ports, d \in Ports, B \in SUBSET Ports}
  /\ provider = FALSE
  /\ wsHandlers = {}
  /\ bridgeHandlers = 0
  /\ bclients = << >>
  /\ pending = {}
  /\ task = 0
  /\ tasksCreated = 0
  /\ log = << >>
  /\ taskListeners = {}

KeepAllButScan ==
  UNCHANGED <<running, server, provider, clients, timers, sock, nextId, clock, wsHandlers,
              bridgeHandlers, bclients, pending, task, tasksCreated, log, taskListeners,
              handshaken, sentAI, svc, config, codec>>

\* const websocketPort = await findAvailablePort(this.config.port)
ScanWebSocketPort ==
  /\ scan.stage = "configured"
  /\ scan' = [stage |-> "first", config |-> scan.config, busy |-> scan.busy,
              websocketPort |-> findAvailablePort(scan.busy, scan.config.port)]
  /\ KeepAllButScan

\* const discoveryPort = await findAvailablePort(this.config.discoveryPort):
\* the probe of the first scan was closed, nothing holds the port it found
ScanDiscoveryPort ==
  /\ scan.stage = "first"
  /\ scan' = [stage |-> "scanned", config |-> scan.config, busy |-> scan.busy,
              websocketPort |-> scan.websocketPort,
              discoveryPort |-> findAvailablePort(scan.busy, scan.config.discoveryPort)]
  /\ KeepAllButScan

NextPorts == ScanWebSocketPort \/ ScanDiscoveryPort

\* the port scans of start() alone
SpecPorts == InitPorts /\ [][NextPorts]_vars

(* --------------------------- codec alone ------------------------------ *)
\* the frames the codec is given.  A frame is built from optional parts:
\* Opt(k, V) is "key k absent" or "key k with a value of V"
NoFields == [k \in {} |-> ""]
Opt(k, V) == {NoFields} \cup {[x \in {k} |-> v] : v \in V}
Merge(r, q) == [k \in (DOMAIN r) \cup (DOMAIN q) |-> IF k \in DOMAIN q THEN q[k] ELSE r[k]]
Restrict(r, S) == [k \in S |-> r[k]]
Payloads(A, B, C) == {[payload |-> Merge(Merge(a, b), c)] : a \in A, b \in B, c \in C}

\* the values a frame may carry in payload.role, payload.action and
\* payload.askResponse: those the message types declare and others
RoleInputs == {"user", "assistant", "system", "robot"}
ActionInputs == {"send", "cancel", "explode"}
AskResponseInputs ==
  {"yesButtonClicked", "noButtonClicked", "messageResponse", "objectResponse", "maybe"}

\* what a client declares in its handshake
HandshakeDetails == [clientType |-> "iOS", version |-> "2.0", capabilities |-> <<"ai">>]
HandshakeSubsets == {Restrict(HandshakeDetails, S) : S \in SUBSET DOMAIN HandshakeDetails}

\* the fields a frame of each type may carry besides type, timestamp and id
Bodies(type) ==
  CASE type = "ClientHandshake" ->
         HandshakeSubsets \cup {[payload |-> d] : d \in HandshakeSubsets}
    [] type = "AIConversation" ->
         {NoFields} \cup Payloads(Opt("sessionId", {"s1"}), Opt("role", RoleInputs),
                                  Opt("content", {"hi"}))
    [] type = "AskResponse" ->
         {NoFields} \cup Payloads(Opt("sessionId", {"s1"}),
                                  Opt("askResponse", AskResponseInputs), {NoFields})
    [] type = "TriggerSend" ->
         {NoFields} \cup Payloads(Opt("sessionId", {"s1"}),
                                  Opt("action", ActionInputs), {NoFields})
    [] type = "Echo" -> {NoFields} \cup Payloads(Opt("message", {"", "hi"}), {NoFields}, {NoFields})
    [] type = "ConnectionRejected" -> Opt("reason", {"Server at maximum capacity"})
    [] type = "ConnectionAccepted" ->
         {NoFields} \cup Payloads(Opt("connectionId", {"c1"}), {NoFields},
                                  {NoFields, [serverInfo |-> [name |-> "Roo Code"]]})
    [] OTHER -> {NoFields}

\* a type outside the enumeration, and no type at all
FrameTypes == Opt("type", VisionMessageType \cup {"Bogus"})

CodecInputs ==
  UNION {{Merge(Merge(Merge(t, b), ts), id) :
            b \in (IF Has(t, "type") THEN Bodies(t.type) ELSE {NoFields}),
            ts \in Opt("timestamp", {99}), id \in Opt("id", {"m1"})} : t \in FrameTypes}

\* the frame given to deserializeMessage, and the clock at that moment
InitCodec ==
  /\ InitServer
  /\ svc = NewService
  /\ config = DefaultConfig
  /\ codec \in {[stage |-> "raw", data |-> d, now |-> n] : d \in CodecInputs, n \in 1..MaxFrames}
  /\ scan = NoScan
  /\ provider = FALSE
  /\ wsHandlers = {}
  /\ bridgeHandlers = 0
  /\ bclients = << >>
  /\ pending = {}
  /\ task = 0
  /\ tasksCreated = 0
  /\ log = << >>
  /\ taskListeners = {}

KeepAllButCodec ==
  UNCHANGED <<running, server, provider, clients, timers, sock, nextId, clock, wsHandlers,
              bridgeHandlers, bclients, pending, task, tasksCreated, log, taskListeners,
              handshaken, sentAI, svc, config, scan>>

\* deserializeMessage(data), a throw being the result DecodeError
Decode ==
  /\ codec.stage = "raw"
  /\ codec' = [stage |-> "decoded", data |-> codec.data, now |-> codec.now,
               message |-> deserializeMessage(codec.data, codec.now)]
  /\ KeepAllButCodec

\* validateMessage(message) on what the decoder returned
Validate ==
  /\ codec.stage = "decoded"
  /\ ~IsError(codec.message)
  /\ codec' = [stage |-> "validated", data |-> codec.data, now |-> codec.now,
               message |-> codec.message, valid |-> validateMessage(codec.message)]
  /\ KeepAllButCodec

NextCodec == Decode \/ Validate

\* the codec alone: a frame is decoded, and what was decoded is validated
SpecCodec == InitCodec /\ [][NextCodec]_vars

(* ------------------------- Connection Server -------------------------- *)
\* the step in which the server's "connection" handler takes socket s
Accepted(s) == sock[s].ready = "idle" /\ sock'[s].ready # "idle"
\* socket s has been turned away for capacity
Rejected(sk) == sk.ready = "closing" /\ sk.code = 1013
Connected(cl) == {c \in DOMAIN cl : cl[c].state = CONNECTED}
LastOut(sk) == sk.out[Len(sk.out)]

\* C1: in every reachable state the Connection Server holds at most
\* maxConnections connection records, whatever their state
C1_AtMostMaxConnections == Cardinality(DOMAIN clients) <= maxConnections

\* the server is full and has turned a socket away
C1_Witness ==
  /\ Cardinality(DOMAIN clients) = maxConnections
  /\ \E s \in SocketIds : Rejected(sock[s])

\* a socket accepted while maxConnections records are held is sent
\* ConnectionRejected("Server at maximum capacity") and closed with 1013; it
\* gets no record and no timer, and nothing else changes
C2_RejectStep ==
  \A s \in SocketIds :
    (Accepted(s) /\ Cardinality(DOMAIN clients) >= maxConnections)
    => /\ Rejected(sock'[s])
       /\ Len(sock'[s].out) = 1
       /\ sock'[s].out[1].type = "ConnectionRejected"
       /\ sock'[s].out[1].reason = "Server at maximum capacity"
       /\ sock'[s].reason = "Server at maximum capacity"
       /\ s \notin DOMAIN clients' /\ s \notin timers'
       /\ clients' = clients /\ timers' = timers
       /\ \A t \in SocketIds \ {s} : sock'[t] = sock[t]

\* once a socket has been turned away, a Ping from a connection the server
\* holds is still answered with a Pong on that connection
C2_PingStillAnswered ==
  (\E s \in SocketIds : Rejected(sock[s]))
  => \A c \in DOMAIN clients :
       sock[c].ready = "open"
       => LET after == handleMessage([World EXCEPT !.clock = @ + 1], c, PingFrame)
          IN /\ Len(after.sock[c].out) = Len(sock[c].out) + 1
             /\ LastOut(after.sock[c]).type = "Pong"
             /\ after.clients[c].state = clients[c].state

\* C2: a socket accepted at capacity is rejected with the reason "Server at
\* maximum capacity" and code 1013, gets no record and no heartbeat timer, and
\* the connections the server holds are untouched and still get a Pong for a Ping
C2_RejectedAtCapacity == [][C2_RejectStep]_vars /\ []C2_PingStillAnswered

\* a socket was turned away while a Connected client, since answered with a
\* Pong, is held
C2_Witness ==
  \E s \in SocketIds, c \in DOMAIN clients :
    /\ Rejected(sock[s])
    /\ sock[s].out # <<>> /\ sock[s].out[1].type = "ConnectionRejected"
    /\ clients[c].state = CONNECTED
    /\ sock[c].out # <<>> /\ LastOut(sock[c]).type = "Pong"

\* C3 as stated: a socket is rejected for capacity only when maxConnections
\* connections are in state Connected
C3_RejectedOnlyWhenConnected ==
  [][\A s \in SocketIds :
       (Accepted(s) /\ Rejected(sock'[s]))
       => Cardinality(Connected(clients)) >= maxConnections]_vars

\* C3 amended: maxConnections caps the connection records in any state; a
\* socket is rejected exactly when maxConnections records, Connecting ones
\* included, are held
C3_RejectedWhenRecordsFull ==
  [][\A s \in SocketIds :
       Accepted(s)
       => (Rejected(sock'[s]) <=> Cardinality(DOMAIN clients) >= maxConnections)]_vars

\* a socket has been turned away while the only connections held are Connecting
C3_Witness ==
  /\ \E s \in SocketIds : Rejected(sock[s])
  /\ Cardinality(DOMAIN clients) = maxConnections
  /\ Connected(clients) = {}

\* a held connection is Connected exactly when a ClientHandshake from it has
\* been received
C4_ConnectedIffHandshaken ==
  \A c \in DOMAIN clients : clients[c].state = CONNECTED <=> c \in handshaken

\* a Connected record stays Connected while it exists, and a step changes a
\* record's state only by receiving a ClientHandshake
C4_StateStep ==
  \A c \in DOMAIN clients \cap DOMAIN clients' :
    /\ clients[c].state = CONNECTED => clients'[c].state = CONNECTED
    /\ clients'[c].state # clients[c].state => (c \in handshaken' /\ c \notin handshaken)

\* C4: state = Connected iff a valid ClientHandshake from the connection has
\* been processed; no other message changes the state and it never returns
\* to Connecting
C4_ConnectedIffHandshake == []C4_ConnectedIffHandshaken /\ [][C4_StateStep]_vars

\* one connection is Connected after its handshake and a further frame, while
\* the record it holds has seen activity
C4_Witness ==
  \E c \in DOMAIN clients :
    /\ clients[c].state = CONNECTED
    /\ c \in handshaken
    /\ clients[c].lastActivity = MaxFrames
    /\ Len(sock[c].out) >= 2

\* C5 as stated: no application message is written to a connection that is
\* still Connecting
C5_NoAppMessageWhileConnecting ==
  \A c \in DOMAIN clients :
    clients[c].state = CONNECTING
    => \A i \in 1..Len(sock[c].out) : sock[c].out[i].type # "AIConversation"

(* --------------------------- running system --------------------------- *)
\* the frames the step appends to what socket c has written
NewFrames(c) == SubSeq(sock'[c].out, Len(sock[c].out) + 1, Len(sock'[c].out))
\* a wire message the Bridge converted from a task message
IsConversion(m) == Has(m, "streamId")
\* wire message m carries task message t with its partial flag
Carries(m, t) ==
  /\ IsConversion(m)
  /\ m.type = "AIConversation"
  /\ m.payload.metadata.messageId = t.ts
  /\ m.payload.content = t.text
  /\ IF t.partial = "undefined" THEN ~Has(m.payload, "partial")
     ELSE Has(m.payload, "partial") /\ m.payload.partial = t.partial

\* C6 as stated: the Bridge holds a Client record for c iff the Connection
\* Server holds connection c and c has sent at least one AI-typed message
C6_RecordIffConnectionSentAI ==
  \A c \in SocketIds :
    BHas(bclients, c) <=> (c \in DOMAIN clients /\ c \in sentAI)

\* C7 as stated: the step in which a connection sends its first AI-typed
\* message while the host has a task writes to that connection one
\* AIConversation per logged message, in log order with the partial flags
\* kept, ahead of anything else, and writes nothing to any other socket
C7_FirstAIMessageReplaysLog ==
  [][\A c \in DOMAIN clients :
       (c \notin sentAI /\ c \in sentAI' /\ task # 0)
       => /\ Len(NewFrames(c)) >= Len(log)
          /\ \A i \in 1..Len(log) : Carries(NewFrames(c)[i], log[i])
          /\ \A i \in (Len(log) + 1)..Len(NewFrames(c)) : ~IsConversion(NewFrames(c)[i])
          /\ \A d \in SocketIds \ {c} : sock'[d] = sock[d]]_vars

\* C8 as stated: a frame received from a connection that already has a Client
\* record leaves the record's sessionId, currentTaskId, connectedAt and
\* syncedMessageCount as they were and replays nothing
C8_RegistrationIdempotent ==
  [][\A c \in DOMAIN clients :
       (clock' # clock /\ BHas(bclients, c) /\ BHas(bclients', c))
       => LET old == bclients[BIndex(bclients, c)]
              new == bclients'[BIndex(bclients', c)]
          IN /\ new.connectedAt = old.connectedAt
             /\ new.currentTaskId = old.currentTaskId
             /\ new.syncedMessageCount = old.syncedMessageCount
             /\ old.sessionId # "" => new.sessionId # ""
             /\ \A i \in 1..Len(NewFrames(c)) : ~IsConversion(NewFrames(c)[i])]_vars

\* C9 as stated: among the wire messages a connection has been sent with one
\* streamId, nothing follows the final one: no second final and no partial
C9_OneFinalPerStream ==
  \A c \in DOMAIN clients :
    \A i, j \in 1..Len(sock[c].out) :
      (i < j /\ IsConversion(sock[c].out[i]) /\ IsConversion(sock[c].out[j])
         /\ sock[c].out[i].streamId = sock[c].out[j].streamId)
      => ~sock[c].out[i].isFinal

\* C10 as stated: two wire messages converted from task messages carry the
\* same streamId exactly when they carry the same logical task message
C10_StreamIdPerTaskMessage ==
  \A c, d \in DOMAIN clients :
    \A i \in 1..Len(sock[c].out), j \in 1..Len(sock[d].out) :
      (IsConversion(sock[c].out[i]) /\ IsConversion(sock[d].out[j]))
      => (sock[c].out[i].streamId = sock[d].out[j].streamId
            <=> sock[c].out[i].payload.metadata.messageId
                  = sock[d].out[j].payload.metadata.messageId)

\* the step is a "created" or "updated" event of the current task
TaskEvent == log' # log /\ task' = task
\* the task message the event carries
EventMessage == log'[Len(log')]

\* C11, the flags: every converted message written to a connection has
\* isStreaming true exactly when its partial flag is true, and isFinal the
\* negation of isStreaming
C11_Flags ==
  \A c \in DOMAIN clients :
    \A i \in 1..Len(sock[c].out) :
      IsConversion(sock[c].out[i])
      => /\ sock[c].out[i].isStreaming
              = (Has(sock[c].out[i].payload, "partial")
                 /\ sock[c].out[i].payload.partial = "true")
         /\ sock[c].out[i].isFinal = ~sock[c].out[i].isStreaming

\* C11, the order: a created or updated event of the task is written to every
\* registered client with an open socket within the event's own step, as the
\* last frame of what the socket has written and with the event's text and
\* flags (an event whose text is blank writes nothing); so the deltas of a
\* stream and its final message reach the client in the order the host
\* emitted them
C11_EventStep ==
  \A c \in DOMAIN clients :
    (TaskEvent /\ BHas(bclients, c) /\ sock[c].ready = "open")
    => IF Trim(EventMessage.text) = "" THEN NewFrames(c) = <<>>
       ELSE /\ Len(NewFrames(c)) = 1
            /\ Carries(NewFrames(c)[1], EventMessage)
            /\ NewFrames(c)[1].isStreaming = (EventMessage.partial = "true")
            /\ NewFrames(c)[1].isFinal = (EventMessage.partial # "true")

\* C11: the wire messages produced from a task's created and updated events
\* are written to each registered client in the host's emission order, each
\* with isStreaming = (partial is true) and isFinal = not isStreaming
C11_EventsInOrderWithFlags == []C11_Flags /\ [][C11_EventStep]_vars

\* a client has been sent a streaming delta and then the final message of the
\* same task message
C11_Witness ==
  \E c \in DOMAIN clients :
    /\ BHas(bclients, c)
    /\ Len(sock[c].out) >= 2
    /\ LET n == Len(sock[c].out)
           a == sock[c].out[n - 1]
           b == sock[c].out[n]
       IN /\ IsConversion(a) /\ IsConversion(b)
          /\ a.payload.metadata.messageId = b.payload.metadata.messageId
          /\ a.isStreaming /\ ~a.isFinal
          /\ b.isFinal /\ ~b.isStreaming
          /\ Len(log) >= 1 /\ Carries(b, log[Len(log)])

(* ------------------------- inbound commands --------------------------- *)
\* the host operations of kind k that the step starts on behalf of connection c
Started(c, k) == {p \in pending' \ pending : p.conn = c /\ p.kind = k}
\* the host operations of kind k whose outcome the step delivers
Settled(k) == {p \in pending \ pending' : p.kind = k}
\* the Bridge has connection c as the driver of the host's current task
DrivesCurrentTask(c) ==
  /\ BHas(bclients, c)
  /\ task # 0
  /\ bclients[BIndex(bclients, c)].currentTaskId = task

\* C12 as stated: a frame received from a client whose currentTaskId is the
\* host's current task never starts a createTask call: the client that
\* created the task and writes again continues it
C12_ContinuesCurrentTask ==
  [][\A c \in DOMAIN clients :
       (clock' # clock /\ DrivesCurrentTask(c)) => Started(c, "createTask") = {}]_vars

\* frame m acknowledges inbound message message of the given type
IsAck(m, type, message) ==
  /\ m.type = "AIConversation"
  /\ ~IsConversion(m)
  /\ m.payload.role = "assistant"
  /\ m.payload.metadata.type = type
  /\ m.payload.metadata.originalMessageId = message.id

\* C13 as stated: when the createTask call made for a client's user message
\* resolves with a new task, the task's id is recorded as currentTaskId on
\* that client's record and the client is sent one task_created
\* acknowledgment that carries the new task id and the inbound message's id
C13_NewTaskRecordedAndAcked ==
  [][\A p \in Settled("createTask") :
       (task' # task /\ p.conn \in DOMAIN clients /\ sock[p.conn].ready = "open"
          /\ BHas(bclients', p.conn))
       => /\ bclients'[BIndex(bclients', p.conn)].currentTaskId = task'
          /\ Len(NewFrames(p.conn)) = 1
          /\ IsAck(NewFrames(p.conn)[1], "task_created", p.message)
          /\ Has(NewFrames(p.conn)[1].payload.metadata, "taskId")
          /\ NewFrames(p.conn)[1].payload.metadata.taskId = task']_vars

\* the world after connection c's next frame, data, has been handled
AfterFrame(c, data) == handleMessage([World EXCEPT !.clock = @ + 1], c, data)
\* the frames that handling writes to socket d
FramesOf(after, d) == SubSeq(after.sock[d].out, Len(sock[d].out) + 1, Len(after.sock[d].out))

\* C14 as stated: while the host has a current task, a well-formed AskResponse
\* from a held connection is answered with one acknowledgment whose metadata
\* has type ask_response_result, success true and the askResponse sent
C14_AskResponseAnswered ==
  \A c \in DOMAIN clients :
    (sock[c].ready = "open" /\ task # 0)
    => LET written == FramesOf(AfterFrame(c, AskResponseFrame), c)
       IN \E i \in 1..Len(written) :
            /\ IsAck(written[i], "ask_response_result", AskResponseFrame)
            /\ Has(written[i].payload.metadata, "success")
            /\ written[i].payload.metadata.success = TRUE
            /\ Has(written[i].payload.metadata, "askResponse")
            /\ written[i].payload.metadata.askResponse = AskResponseFrame.payload.askResponse

\* frame m reports a delivered trigger command
IsTriggerSuccess(m) ==
  /\ m.type = "AIConversation"
  /\ ~IsConversion(m)
  /\ m.payload.metadata.type \in {"trigger_result", "cancel_result"}
  /\ Has(m.payload.metadata, "success")
  /\ m.payload.metadata.success = TRUE

\* C15 as stated: a success reply to a TriggerSend is written only in the step
\* in which the host operation invoked for that command returns: a command
\* that was not delivered to the host is never answered with success = true
C15_SuccessOnlyWhenDelivered ==
  [][\A c \in DOMAIN clients :
       \A i \in 1..Len(NewFrames(c)) :
         IsTriggerSuccess(NewFrames(c)[i])
         => \E p \in Settled("postMessage") : p.conn = c]_vars

\* C16: when the host operation awaited for a client's message fails
\* (createTask throws or returns no task, postMessageToWebview rejects), the
\* failure is answered with exactly one error acknowledgment written to the
\* originating connection, if the server still holds it open (a
\* postMessageToWebview call that resolves is answered with its result); nothing is written to any other socket, no socket is
\* closed, the connection map, the heartbeat timers and the Bridge's client
\* table stay as they were, and the host's task and the other pending
\* operations are untouched
C16_HostFailureIsLocal ==
  [][\A p \in pending \ pending' :
       task' = task
       => /\ clients' = clients
          /\ timers' = timers
          /\ bclients' = bclients
          /\ pending' = pending \ {p}
          /\ log' = log
          /\ \A d \in SocketIds \ {p.conn} : sock'[d] = sock[d]
          /\ sock'[p.conn].ready = sock[p.conn].ready
          /\ IF p.conn \in DOMAIN clients /\ sock[p.conn].ready = "open"
             THEN /\ Len(NewFrames(p.conn)) = 1
                  /\ \/ IsAck(NewFrames(p.conn)[1], "error", p.message)
                     \/ /\ p.kind = "postMessage"
                        /\ IsTriggerSuccess(NewFrames(p.conn)[1])
                  /\ sock'[p.conn].out = Append(sock[p.conn].out, NewFrames(p.conn)[1])
             ELSE sock'[p.conn] = sock[p.conn]]_vars

\* a held connection has just been sent the error acknowledgment of its user
\* message, and the Bridge still has its record
C16_Witness ==
  \E c \in DOMAIN clients :
    /\ sock[c].ready = "open"
    /\ BHas(bclients, c)
    /\ Len(sock[c].out) >= 1
    /\ IsAck(LastOut(sock[c]), "error", UserFrame("s1"))
    /\ ~Has(LastOut(sock[c]).payload.metadata, "error")
    /\ \A p \in pending : p.conn # c

\* the step handles a valid frame received from connection c
HandlesFrameOf(c) ==
  /\ clock' # clock
  /\ c \in DOMAIN clients'
  /\ clients'[c].lastActivity = clock'

\* C17 as stated: a connection's next message is not handled before the
\* handling of its previous one, the awaited host operation and the
\* acknowledgment included, has finished
C17_OneMessageAtATime ==
  [][\A c \in DOMAIN clients :
       HandlesFrameOf(c) => \A p \in pending : p.conn # c]_vars

(* --------------------------- protocol errors -------------------------- *)
\* the world a handler returns, without the list of events it emitted
State(w) == [w EXCEPT !.emitted = <<>>]
\* the names of the events a handler emitted, in order
Events(w) == [i \in 1..Len(w.emitted) |-> w.emitted[i].event]

\* C18, per state: for a held, open connection a frame that is malformed, of
\* unknown type or without a required field emits exactly one ERROR event
\* and no MESSAGE_RECEIVED, writes no reply and leaves every record, socket
\* and timer as it was (only the clock has moved); a valid Ping that follows
\* is received and answered with a Pong
C18_BadFrameChangesNothing ==
  \A c \in DOMAIN clients :
    sock[c].ready = "open"
    => \A bad \in BadFrames :
         LET after == AfterFrame(c, bad)
             next == handleMessage([State(after) EXCEPT !.clock = @ + 1], c, PingFrame)
         IN /\ Events(after) = <<"error">>
            /\ State(after) = [World EXCEPT !.clock = @ + 1]
            /\ Events(next) = <<"messageReceived">>
            /\ next.clients[c].lastActivity = next.clock
            /\ Len(next.sock[c].out) = Len(sock[c].out) + 1
            /\ next.sock[c].out[Len(next.sock[c].out)].type = "Pong"

\* C18, per step: a step in which a frame arrives and no connection's
\* lastActivity is stamped (the frame was refused) changes nothing else
C18_RefusedStep ==
  (clock' # clock /\ \A c \in DOMAIN clients' : clients'[c].lastActivity # clock')
  => /\ clients' = clients
     /\ timers' = timers
     /\ sock' = sock
     /\ bclients' = bclients
     /\ pending' = pending

\* C18: a protocol error on an inbound frame is not fatal: one ERROR event, no
\* reply, no MESSAGE_RECEIVED, the connection kept with its state, declared
\* fields, lastActivity and heartbeat timer unchanged, and the next valid
\* message processed normally
C18_ProtocolErrorNotFatal == []C18_BadFrameChangesNothing /\ [][C18_RefusedStep]_vars

\* a Connected client whose second frame was refused: it is still held, with
\* its timer, the lastActivity of its handshake and nothing but the handshake's
\* answer written
C18_Witness ==
  /\ 1 \in DOMAIN clients
  /\ sock[1].ready = "open"
  /\ sock[2].ready = "idle"
  /\ clients[1].state = CONNECTED
  /\ 1 \in timers
  /\ clock = 2
  /\ clients[1].lastActivity = 1
  /\ Len(sock[1].out) = 1
  /\ sock[1].out[1].type = "ConnectionAccepted"

(* ------------------------------ handshake ----------------------------- *)
\* the fields a ClientHandshake frame declares, at top level or in its payload
Declared(hs) == IF Has(hs, "payload") THEN hs.payload ELSE hs

\* C19, per state: for a held, open connection c a valid ClientHandshake sets
\* c's state to Connected and copies the declared clientType (whatever its
\* value), version and capabilities, then writes one ConnectionAccepted whose
\* payload.connectionId is c's id, then emits CLIENT_CONNECTED once, carrying
\* the updated connection; and no frame makes the server emit
\* CLIENT_CONNECTED with a connection that is not Connected
C19_HandshakeOutcome ==
  \A c \in DOMAIN clients :
    sock[c].ready = "open"
    => /\ \A hs \in {HandshakeTop, HandshakeNested} :
            LET after == AfterFrame(c, hs)
                n == Len(after.emitted)
                reply == FramesOf(after, c)
            IN /\ after.clients[c].state = CONNECTED
               /\ after.clients[c].clientType = Declared(hs).clientType
               /\ after.clients[c].version = Declared(hs).version
               /\ after.clients[c].capabilities = Declared(hs).capabilities
               /\ Len(reply) = 1
               /\ reply[1].type = "ConnectionAccepted"
               /\ reply[1].payload.connectionId = c
               /\ n >= 1
               /\ after.emitted[n].event = "clientConnected"
               /\ after.emitted[n].data.connection = after.clients[c]
               /\ after.emitted[n].written = Len(sock[c].out) + 1
               /\ \A i \in 1..(n - 1) : after.emitted[i].event # "clientConnected"
       /\ \A data \in ServerFrames \cup Frames \cup BadFrames :
            LET after == AfterFrame(c, data)
            IN \A i \in 1..Len(after.emitted) :
                 after.emitted[i].event = "clientConnected"
                 => /\ after.emitted[i].data.connection.state = CONNECTED
                    /\ after.emitted[i].data.connection.id = c

\* C19: on every valid ClientHandshake the server, in order, marks the
\* connection Connected with the declared fields, replies ConnectionAccepted
\* with the connection's id and emits CLIENT_CONNECTED with the updated
\* connection; CLIENT_CONNECTED is never emitted for a connection that is
\* not Connected
C19_HandshakeCompletesInOrder == []C19_HandshakeOutcome

\* a connection whose handshake declared a client type outside
\* visionOS/iOS/macOS is Connected with the declared fields and has been sent
\* ConnectionAccepted with its own id
C19_Witness ==
  \E c \in DOMAIN clients :
    /\ c \in handshaken
    /\ clients[c].state = CONNECTED
    /\ clients[c].clientType = "tvOS"
    /\ clients[c].version = "2.0"
    /\ clients[c].capabilities = <<"echo">>
    /\ Len(sock[c].out) >= 1
    /\ LastOut(sock[c]).type = "ConnectionAccepted"
    /\ LastOut(sock[c]).payload.connectionId = c

(* ------------------------------ heartbeat ----------------------------- *)
\* connection c is held with a ping that no pong has answered
Unanswered(c) == c \in timers /\ c \in DOMAIN clients /\ clients[c].lastPing > 0

\* C20, the tick: at the tick that follows an unanswered ping (now - lastPing
\* exceeds pingInterval + pongTimeout) the connection is disconnected with
\* reason "Ping timeout": its timer is cleared, its record removed, its socket
\* closed with that reason if it is open, one CLIENT_DISCONNECTED emitted; no
\* other record, timer or socket changes.  At the tick that follows a pong or
\* the accept the connection is kept
C20_TimeoutAtTick ==
  \A c \in timers :
    c \in DOMAIN clients
    => LET after == sendPing(AtTick(c), c)
       IN IF clients[c].lastPing > 0
          THEN /\ AtTick(c).clients[c].lastPing > pingInterval + pongTimeout
               /\ after.clients = Remove(clients, c)
               /\ after.timers = timers \ {c}
               /\ \A d \in SocketIds \ {c} : after.sock[d] = sock[d]
               /\ IF sock[c].ready = "open"
                  THEN /\ after.sock[c].ready = "closing"
                       /\ after.sock[c].code = 1000
                       /\ after.sock[c].reason = "Ping timeout"
                  ELSE after.sock[c] = sock[c]
               /\ Len(after.emitted) = 1
               /\ after.emitted[1].event = "clientDisconnected"
               /\ after.emitted[1].data = [connectionId |-> c, reason |-> "Ping timeout"]
          ELSE /\ c \in DOMAIN after.clients
               /\ c \in after.timers
               /\ after.sock = sock
               /\ after.emitted = <<>>

\* C20, eventually: a held connection with an unanswered ping is eventually
\* answered for by a pong or no longer held
C20_UnansweredLeadsToGone ==
  \A c \in SocketIds : Unanswered(c) ~> ~Unanswered(c)

\* C20: a client that stops answering pings is eventually disconnected with
\* reason "Ping timeout", which stops its timer and removes its record; only
\* the offending connection is closed
C20_PingTimeoutDisconnects == []C20_TimeoutAtTick /\ C20_UnansweredLeadsToGone

\* a connection has been closed by the server for a ping timeout
C20_Witness ==
  \E c \in SocketIds :
    /\ sock[c].reason = "Ping timeout"
    /\ sock[c].code = 1000
    /\ c \notin DOMAIN clients
    /\ c \notin timers

(* C21 *)
\* the ways a connection ends
EndingPaths == {"close", "error", "timeout", "stop"}

\* one of the ending paths running for socket c in world w: the socket's
\* "close" event, its "error" event, the tick after an unanswered ping, or
\* stop() on the server
Ending(w, c, path) ==
  CASE path = "close" -> handleDisconnection([w EXCEPT !.sock[c] = ClosedSocket], c, "Code")
    [] path = "error" -> handleSocketError(w, c, "socket error")
    [] path = "timeout" ->
         sendPing(IF c \in DOMAIN w.clients
                  THEN [w EXCEPT !.clients[c].lastPing = 2 * pingInterval]
                  ELSE w, c)
    [] path = "stop" -> stop(w)

\* the CLIENT_DISCONNECTED events for connection c among those emitted in w
DisconnectedEvents(w, c) ==
  Cardinality({i \in 1..Len(w.emitted) :
                 /\ w.emitted[i].event = "clientDisconnected"
                 /\ w.emitted[i].data.connectionId = c})

\* C21 (state part): whichever path ends a held connection, it emits one
\* CLIENT_DISCONNECTED for it and frees its record, and any path that runs
\* afterwards for the same socket emits none; a socket that holds no record
\* (never accepted, rejected for capacity, already ended) gets none from any
\* path; a frame received never emits one
C21_OncePerPath ==
  /\ \A c \in SocketIds : \A p1 \in EndingPaths :
        LET after == Ending(World, c, p1)
        IN IF c \in DOMAIN clients
           THEN /\ DisconnectedEvents(after, c) = 1
                /\ c \notin DOMAIN after.clients
                /\ c \notin after.timers
                /\ \A p2 \in EndingPaths :
                      DisconnectedEvents(Ending(State(after), c, p2), c) = 0
           ELSE DisconnectedEvents(after, c) = 0
  /\ \A c \in SocketIds : Rejected(sock[c]) => c \notin DOMAIN clients
  /\ \A c \in DOMAIN clients : \A d \in ServerFrames : \A x \in SocketIds :
        DisconnectedEvents(AfterFrame(c, d), x) = 0

\* C21 (step part): a record is allocated only to a socket that is just being
\* accepted, a socket is accepted once, and a socket rejected for capacity is
\* allocated none, so a connection has one lifetime
C21_OneLifetime ==
  \A c \in SocketIds :
    /\ (c \in DOMAIN clients' /\ c \notin DOMAIN clients) => Accepted(c)
    /\ sock[c].ready # "idle" => sock'[c].ready # "idle"
    /\ (Accepted(c) /\ Rejected(sock'[c])) => c \notin DOMAIN clients'

\* C21: CLIENT_DISCONNECTED is emitted exactly once for every connection that
\* was allocated a record, whichever path ends it and however the paths
\* overlap, and never for a socket rejected for capacity
C21_DisconnectedExactlyOnce == []C21_OncePerPath /\ [][C21_OneLifetime]_vars

\* a connection the server has ended for a ping timeout, whose socket's
\* "close" event is still to come, beside a socket rejected for capacity
C21_Witness ==
  \E c, r \in SocketIds :
    /\ sock[c].ready = "closing" /\ sock[c].reason = "Ping timeout"
    /\ c \notin DOMAIN clients
    /\ Rejected(sock[r])

(* C29 *)
\* strings a client may ask to have echoed
EchoTexts == {"", "hi"}

\* handling frame data from c writes exactly one frame, m, and only to c
OneReply(c, data, m) ==
  LET after == AfterFrame(c, data)
  IN /\ Len(FramesOf(after, c)) = 1
     /\ FramesOf(after, c)[1].type = m.type
     /\ Has(m, "payload") => FramesOf(after, c)[1].payload = m.payload
     /\ \A d \in SocketIds \ {c} : FramesOf(after, d) = <<>>

\* C29 as stated: for every string s, an Echo carrying s received on an open
\* connection is answered on that connection with exactly one Echo carrying s,
\* a Ping with exactly one Pong, and nothing is written to another connection
C29_EchoAndPingAnswered ==
  \A c \in DOMAIN clients :
    sock[c].ready = "open"
    => /\ \A s \in EchoTexts : OneReply(c, EchoFrame(s), echo(0, s))
       /\ OneReply(c, PingFrame, pong(0))

(* C30 *)
\* the sessionId a host task event is converted with in world w
EventSessionId(w) ==
  convertClineMessageToVision(w, ClineMessage(1, TRUE, "ask", "Hi", "undefined")).payload.sessionId

\* C30 as stated: once a registered client has declared a session and remains
\* registered, a host task event is converted with a sessionId a client
\* declared, never with "current-session", whichever AI-typed frame that client
\* sends afterwards
C30_DeclaredSessionUsed ==
  \A i \in 1..Len(bclients) :
    LET c == bclients[i].connectionId
    IN (bclients[i].sessionId # "" /\ c \in DOMAIN clients /\ sock[c].ready = "open")
       => /\ EventSessionId(World) \in {bclients[j].sessionId : j \in 1..Len(bclients)} \ {""}
          /\ \A d \in {UserFrame("s1"), AssistantFrame, AskResponseFrame, TriggerFrame} :
                LET after == State(AfterFrame(c, d))
                IN BHas(after.bclients, c) => EventSessionId(after) # "current-session"

(* C28 *)
\* the held connections a send reaches when the sockets in F throw on send
Reached(F) == {c \in DOMAIN clients : sock[c].ready = "open" /\ c \notin F}

\* C28: broadcast(msg) tries every held connection and returns the number of
\* sends that succeeded: a connection whose socket is not OPEN or whose send
\* throws is not written to and not counted, and every other held connection
\* is written the message once, whichever connections fail
C28_BroadcastCountsSuccesses ==
  \A F \in SUBSET DOMAIN clients :
    LET r == broadcast([World EXCEPT !.faulty = F], AppMessage)
    IN /\ r.sentCount = Cardinality(Reached(F))
       /\ \A c \in Reached(F) : r.w.sock[c].out = Append(sock[c].out, AppMessage)
       /\ \A c \in SocketIds \ Reached(F) : r.w.sock[c] = sock[c]
       /\ r.w.clients = clients
       /\ r.w.timers = timers

\* two connections are held, the first with a socket that is no longer open;
\* a broadcast has written to the second and not to the first
C28_Witness ==
  \E c, d \in DOMAIN clients :
    /\ c < d
    /\ sock[c].ready # "open"
    /\ sock[d].ready = "open"
    /\ \A i \in 1..Len(sock[c].out) : sock[c].out[i] # AppMessage
    /\ \E i \in 1..Len(sock[d].out) : sock[d].out[i] = AppMessage

(* C22 *)
\* the start() calls suspended at their awaits
StartsInFlight == {call \in svc.calls : call.kind = "start"}

\* C22 as stated: a start() on a stopped service whose port scans both find a
\* free port resolves with the Connection Server and the Discovery Endpoint
\* listening, the orchestrator's four handlers installed on the server, the
\* service running and one SERVICE_STARTED emitted
C22_StartSucceeds ==
  \A call \in StartsInFlight :
    (config.enabled /\ ~svc.isRunning)
    => LET after == startResume(World, call, TRUE)
       IN /\ [n |-> call.n, kind |-> "start", outcome |-> "resolved"] \in after.svc.results
          /\ after.svc.isRunning
          /\ after.running /\ after.server = "listening"
          /\ after.svc.discovery = "listening"
          /\ after.wsHandlers = AllHandlers
          /\ after.svc.started = svc.started + 1

(* C24 *)
\* C24 as stated: when a step of start() fails, the rejected call leaves no
\* server socket listening, no timer armed, the service not running and its
\* websocketServer and discoveryServer fields reset
C24_FailedStartRollsBack ==
  \A call \in StartsInFlight : \A free \in BOOLEAN :
    LET after == startResume(World, call, free)
    IN (/\ config.enabled
        /\ \E r \in after.svc.results :
             r.n = call.n /\ r.kind = "start" /\ r.outcome # "resolved")
       => /\ after.server = "none" /\ after.svc.discovery = "none"
          /\ after.timers = {} /\ ~after.svc.cleanupInterval
          /\ ~after.svc.isRunning /\ ~after.running
          /\ ~after.svc.websocketServer /\ ~after.svc.discoveryServer

(* C27 *)
\* C27 as stated: with enabled = false in the configuration, start() returns
\* at once: no start() is left scanning for ports, no Connection Server or
\* Discovery Endpoint is created, the service is not running and
\* SERVICE_STARTED is not emitted
C27_DisabledStartDoesNothing ==
  ~config.enabled
  => /\ StartsInFlight = {}
     /\ ~svc.websocketServer /\ ~svc.discoveryServer
     /\ ~svc.isRunning /\ svc.started = 0
     /\ \A r \in svc.results : r.kind = "start" => r.outcome = "resolved"

(* C23 *)
AlreadyRunning == "VisionSync service is already running"

\* C23: start() on a Sync Service that is running, or on a Connection Server
\* that is running, fails with an error and changes nothing: the server, its
\* connections, their timers and sockets and the running flags are as they
\* were, and only the rejected call is recorded
C23_SecondStartRejected ==
  /\ svc.isRunning
     => \A withProvider \in BOOLEAN : \A n \in 1..MaxCalls :
          serviceStart(World, withProvider, n) = Settle(World, n, "start", AlreadyRunning)
  /\ running => serverStart(World) = [w |-> World, threw |-> TRUE]

\* a start() has been rejected by a running service that holds a connection
C23_Witness ==
  /\ svc.isRunning /\ running /\ server = "listening"
  /\ clients # << >>
  /\ \E r \in svc.results : r.kind = "start" /\ r.outcome = AlreadyRunning

(* C25 *)
\* C25 as stated: SERVICE_STOPPED is emitted once per successful start, a
\* stop() called while another is awaiting the servers' close emits nothing
\* more and changes nothing, and a stop() on a stopped service changes nothing
C25_StopIdempotent ==
  /\ svc.stopped <= svc.started
  /\ \A call \in svc.calls :
       call.kind = "stop" => serviceStop(World).w = World
  /\ ~svc.isRunning => serviceStop(World) = [w |-> World, awaiting |-> FALSE]

(* C26 *)
\* C26 (the call): stop() on the running service, up to its await, cancels
\* the cleanup timer and every heartbeat timer, closes every open client
\* socket with 1000 "Server shutdown", empties the map, announces each
\* connection once and has both servers closing; the call is left awaiting
C26_AtStop ==
  (svc.isRunning /\ server = "listening")
  => LET r == serviceStop(World)
     IN /\ r.awaiting
        /\ ~r.w.svc.cleanupInterval
        /\ r.w.timers = {}
        /\ r.w.clients = << >>
        /\ r.w.server = "closing" /\ r.w.svc.discovery = "closing"
        /\ \A c \in DOMAIN clients :
             /\ DisconnectedEvents(r.w, c) = 1
             /\ sock[c].ready = "open"
                => /\ r.w.sock[c].ready = "closing"
                   /\ r.w.sock[c].code = 1000
                   /\ r.w.sock[c].reason = "Server shutdown"

\* C26 (the await): a stop() in flight resumes only when both servers have
\* reported closed
C26_WaitsForBoth ==
  \A call \in svc.calls :
    (call.kind = "stop" /\ call \notin svc.calls')
    => server = "none" /\ svc.discovery = "none"

\* C26 (afterwards): once a stop() has resolved, no server is listening, the
\* map is empty, no timer is armed and no connection can be accepted
C26_AfterStop ==
  (\E r \in svc.results : r.kind = "stop")
  => /\ server = "none" /\ svc.discovery = "none" /\ ~running
     /\ clients = << >> /\ timers = {} /\ ~svc.cleanupInterval
     /\ ~ENABLED Accept

\* C26 (progress): every stop() that is awaiting the servers resolves
C26_StopResolves ==
  \A n \in 1..MaxCalls :
    (\E call \in svc.calls : call.n = n /\ call.kind = "stop")
    ~> (\E r \in svc.results : r.n = n)

\* C26: stop() cancels the timers, closes every client with 1000 "Server
\* shutdown", waits for both servers to report closed and then resolves, after
\* which the map is empty, no timer is armed and nothing can be accepted
C26_StopClosesEverything ==
  /\ []C26_AtStop
  /\ [][C26_WaitsForBoth]_vars
  /\ []C26_AfterStop
  /\ C26_StopResolves

\* a stop() has resolved after closing a connection the service held
C26_Witness ==
  /\ \E r \in svc.results : r.kind = "stop" /\ r.outcome = "resolved"
  /\ \E c \in SocketIds : sock[c].code = 1000 /\ sock[c].reason = "Server shutdown"
  /\ svc.stopped = 1

(* C31 *)
\* task messages a live event may carry
TaskMessages ==
  {ClineMessage(1, n.hasId, n.type, text, n.partial) : n \in NewMessages, text \in Texts}

\* the "messageForClient" events for connection c that carry task message t
ForClient(w, c, t) ==
  Cardinality({i \in 1..Len(w.forClient) :
                 /\ w.forClient[i].connectionId = c
                 /\ Carries(w.forClient[i].message, t)})

\* C31: a task message whose text is blank produces no "messageForClient",
\* live or replayed, and changes nothing; one with text produces exactly one
\* per registered client on a created or updated event, and exactly one, for
\* the client being synchronised, on a replay
C31_BlankProducesNothing ==
  /\ \A t \in TaskMessages : \A action \in {"created", "updated"} :
        LET after == messageListener(World, action, t)
        IN IF Trim(t.text) = "" THEN after = World
           ELSE task # 0
                => /\ Len(after.forClient) = Len(bclients)
                   /\ \A i \in 1..Len(bclients) :
                        ForClient(after, bclients[i].connectionId, t) = 1
  /\ \A c \in SocketIds :
        (provider /\ task # 0)
        => LET after == syncConversationHistory(World, c)
           IN /\ \A i \in 1..Len(after.forClient) : after.forClient[i].connectionId = c
              /\ \A i \in 1..Len(log) :
                   ForClient(after, c, log[i]) = IF Trim(log[i].text) = "" THEN 0 ELSE 1
              /\ Len(after.forClient) =
                   Cardinality({i \in 1..Len(log) : Trim(log[i].text) # ""})

\* the task log holds a blank message and one with text, and a registered
\* client has been written a conversion
C31_Witness ==
  /\ \E i, j \in 1..Len(log) : Trim(log[i].text) = "" /\ Trim(log[j].text) # ""
  /\ \E i \in 1..Len(bclients) :
       LET c == bclients[i].connectionId
       IN \E k \in 1..Len(sock[c].out) : IsConversion(sock[c].out[k])


(* C37: start() calls that overlap do not both go ahead: at no time are two
   calls of start() past the guard and on their way to constructing and
   starting the servers. *)
C37_OneStartProceeds == Cardinality(StartsInFlight) <= 1

\* a call of start() resumes after its awaits and constructs a Connection Server
Constructs(call) ==
  /\ call \in svc.calls /\ call.kind = "start"
  /\ call \notin svc'.calls
  /\ svc'.websocketServer /\ server' = "none" /\ clients' = << >>

\* no call constructs a Connection Server while the service holds one that an
\* earlier call has constructed
C37_OneServerConstructed ==
  [][\A call \in svc.calls : Constructs(call) => ~svc.websocketServer]_vars

(* ------------------------------- ports -------------------------------- *)
\* the two scans of start() have been made
Scanned == scan.stage = "scanned"

(* C36: whatever ports are configured and whatever ports are busy, the port
   start() chooses for the WebSocket server and the port it chooses for the
   discovery server are not the same port. *)
C36_PortsDistinct ==
  (Scanned /\ scan.websocketPort # 0 /\ scan.discoveryPort # 0)
    => scan.websocketPort # scan.discoveryPort

\* the same for the default configuration alone
C36_DefaultPortsDistinct ==
  (/\ Scanned
   /\ scan.config = [port |-> defaultPort, discoveryPort |-> defaultDiscoveryPort]
   /\ scan.websocketPort # 0 /\ scan.discoveryPort # 0)
    => scan.websocketPort # scan.discoveryPort

\* the same for a configuration of two different ports that are both free
C36_FreePortsDistinct ==
  (/\ Scanned
   /\ scan.config.port # scan.config.discoveryPort
   /\ scan.config.port \notin scan.busy /\ scan.config.discoveryPort \notin scan.busy)
    => /\ scan.websocketPort = scan.config.port
       /\ scan.discoveryPort = scan.config.discoveryPort

(* -------------------------------- codec ------------------------------- *)
\* the frame has been through deserializeMessage
Decoded == codec.stage \in {"decoded", "validated"}
\* the frame names a type of the enumeration
KnownFrame == Has(codec.data, "type") /\ codec.data.type \in VisionMessageType
\* validateMessage's check of the required base fields
baseFields(msg) == TruthyStr(msg, "type") /\ TruthyNum(msg, "timestamp") /\ TruthyStr(msg, "id")

(* C32: a frame of a known type that lacks timestamp, id or both is decoded,
   never thrown away: the decoded message has the frame's type, the frame's
   timestamp where it had one and the clock otherwise, the frame's id where
   it had one and a generated identifier otherwise, and it passes the
   base-field check of validation. *)
C32_MissingBaseFieldsBackFilled ==
  (Decoded /\ KnownFrame) =>
    /\ ~IsError(codec.message)
    /\ codec.message.type = codec.data.type
    /\ codec.message.timestamp =
         IF Has(codec.data, "timestamp") THEN codec.data.timestamp ELSE codec.now
    /\ codec.message.id =
         IF Has(codec.data, "id") THEN codec.data.id ELSE generatedId(codec.now)
    /\ baseFields(codec.message)
    /\ \A n \in 1..MaxFrames : n # codec.now => generatedId(n) # generatedId(codec.now)

\* an Echo without timestamp and id has been decoded and has passed validation
C32_Witness ==
  /\ codec.stage = "validated" /\ codec.valid
  /\ codec.data.type = "Echo"
  /\ ~Has(codec.data, "timestamp") /\ ~Has(codec.data, "id")
  /\ codec.message.timestamp = codec.now

\* the details a handshake frame presents, wherever it presents them
Presented(data) == IF Has(data, "payload") THEN data.payload ELSE data
\* the in-memory form of a handshake: each detail as presented, else its default
Normalized(data, message) ==
  [type |-> "ClientHandshake", timestamp |-> message.timestamp, id |-> message.id,
   clientType |-> OrStr(Presented(data), "clientType", "visionOS"),
   version |-> OrStr(Presented(data), "version", "1.0.0"),
   capabilities |-> IF Has(Presented(data), "capabilities")
                    THEN Presented(data).capabilities ELSE <<>>]

(* C33: a ClientHandshake frame presenting any subset of clientType, version
   and capabilities, at the top level or under payload, is decoded to the
   same in-memory form: the details at the top level, each one as presented
   or else its default ("visionOS", "1.0.0", no capabilities); and
   validateMessage accepts that form. *)
C33_HandshakeNormalized ==
  (Decoded /\ KnownFrame /\ codec.data.type = "ClientHandshake") =>
    /\ codec.message = Normalized(codec.data, codec.message)
    /\ codec.stage = "validated" => codec.valid

\* the same for the frames that present their details under payload
C33_NestedNormalized ==
  (Decoded /\ KnownFrame /\ codec.data.type = "ClientHandshake" /\ Has(codec.data, "payload")) =>
    /\ codec.message = Normalized(codec.data, codec.message)
    /\ codec.stage = "validated" => codec.valid

\* the values the message types declare for role, action and askResponse
Roles == {"user", "assistant", "system"}
TriggerActions == {"send", "cancel"}
AskResponses == {"yesButtonClicked", "noButtonClicked", "messageResponse", "objectResponse"}
\* msg.payload.f is one of the values of V
PayloadIn(msg, f, V) == PayloadStr(msg, f) /\ msg.payload[f] \in V

\* what each type requires of a message besides its base fields
Required(msg) ==
  CASE msg.type = "AIConversation" ->
         PayloadStr(msg, "sessionId") /\ PayloadIn(msg, "role", Roles) /\ PayloadStr(msg, "content")
    [] msg.type = "AskResponse" ->
         PayloadStr(msg, "sessionId") /\ PayloadIn(msg, "askResponse", AskResponses)
    [] msg.type = "TriggerSend" ->
         PayloadStr(msg, "sessionId") /\ PayloadIn(msg, "action", TriggerActions)
    [] msg.type = "Echo" -> PayloadStr(msg, "message")
    [] msg.type = "ConnectionRejected" -> TruthyStr(msg, "reason")
    [] msg.type = "ConnectionAccepted" ->
         PayloadStr(msg, "connectionId") /\ Has(msg.payload, "serverInfo")
    [] msg.type \in {"Ping", "Pong"} -> TRUE
    [] OTHER -> FALSE

(* C34: validateMessage accepts a message that has its base fields exactly
   when its type is of the enumeration and the requirements of that type
   hold (for AIConversation a sessionId, a role among user, assistant and
   system, and a content; for AskResponse a sessionId and one of the four
   askResponse values; for TriggerSend a sessionId and the action send or
   cancel; for Echo a message; for ConnectionRejected a reason; for
   ConnectionAccepted a connectionId and a serverInfo; nothing for Ping and
   Pong).  Stated for every message but the handshake, both for what the
   decoder returned and for the frame as it was sent. *)
C34_ValidatesExactly ==
  /\ (codec.stage = "validated" /\ codec.message.type # "ClientHandshake")
       => (codec.valid <=> Required(codec.message))
  /\ (baseFields(codec.data) /\ codec.data.type # "ClientHandshake")
       => (validateMessage(codec.data) <=> Required(codec.data))

\* the same with AskResponse and the value sets of role and action left aside
C34_ValidatesPresence ==
  (/\ codec.stage = "validated"
   /\ codec.message.type \notin {"ClientHandshake", "AskResponse"}
   /\ PayloadStr(codec.message, "role") => codec.message.payload.role \in Roles
   /\ PayloadStr(codec.message, "action") => codec.message.payload.action \in TriggerActions)
  => /\ codec.valid <=> Required(codec.message)
     /\ baseFields(codec.data) => (validateMessage(codec.data) <=> Required(codec.data))

\* no AskResponse is accepted
C34_AskResponseRefused ==
  (codec.stage = "validated" /\ codec.message.type = "AskResponse") => ~codec.valid

\* a role or an action outside the declared values is refused
C34_ValuesChecked ==
  (codec.stage = "validated" /\ codec.valid) =>
    /\ PayloadStr(codec.message, "role") => codec.message.payload.role \in Roles
    /\ PayloadStr(codec.message, "action") => codec.message.payload.action \in TriggerActions

(* ------------------------------ restarts ------------------------------ *)
(* C35: whatever start() and stop() calls the service has been through, a
   message the Bridge generates for a connection (a replayed or a live
   conversion) is written to that connection's socket once: no socket has
   received the same conversion twice. *)
C35_DeliveredOnce ==
  \A s \in SocketIds :
    \A i, j \in 1..Len(sock[s].out) :
      (i < j /\ IsConversion(sock[s].out[i])) => sock[s].out[i] # sock[s].out[j]

(* ------------------------- before the handshake ----------------------- *)
\* connection c is held with its socket open and has not completed a handshake
Connecting(c) ==
  c \in DOMAIN clients /\ sock[c].ready = "open" /\ clients[c].state = CONNECTING

(* C38: an AIConversation or a TriggerSend received from a connection that is
   still Connecting is not dispatched to the Bridge: the Bridge's client
   records stay as they were, no host operation is started, the host task is
   untouched and no conversion is replayed to the connection. *)
C38_ConnectingNotDispatched ==
  \A c \in SocketIds :
    Connecting(c) =>
      \A data \in {UserFrame("s1"), TriggerFrame} :
        LET after == AfterFrame(c, data)
        IN /\ after.bclients = bclients
           /\ after.pending = pending
           /\ after.task = task /\ after.log = log
           /\ \A i \in 1..Len(FramesOf(after, c)) : ~IsConversion(FramesOf(after, c)[i])

\* the same of a connection that is neither held nor known to the Bridge
C38_UnknownNotDispatched ==
  \A c \in SocketIds \ DOMAIN clients :
    \A data \in {UserFrame("s1"), TriggerFrame} :
      LET after == serviceHandleMessage(World, c, deserializeMessage(data, clock + 1))
      IN after.bclients = bclients /\ after.pending = pending

\* the ConnectionAccepted frames written to socket s
Acceptances(s) == {i \in 1..Len(sock[s].out) : sock[s].out[i].type = "ConnectionAccepted"}

(* C39: a connection is announced once: no socket is sent ConnectionAccepted
   twice, and a ClientHandshake received on a connection that is already
   Connected writes no ConnectionAccepted, emits no CLIENT_CONNECTED and
   leaves the connection's clientType, version and capabilities as declared
   the first time. *)
C39_AnnouncedOnce ==
  /\ \A s \in SocketIds : Cardinality(Acceptances(s)) <= 1
  /\ \A c \in DOMAIN clients :
       (sock[c].ready = "open" /\ clients[c].state = CONNECTED)
       => \A hs \in {HandshakeTop, HandshakeNested} :
            LET after == AfterFrame(c, hs)
            IN /\ \A i \in 1..Len(FramesOf(after, c)) :
                    FramesOf(after, c)[i].type # "ConnectionAccepted"
               /\ \A i \in 1..Len(after.emitted) :
                    after.emitted[i].event # "clientConnected"
               /\ after.clients[c].clientType = clients[c].clientType
               /\ after.clients[c].version = clients[c].version
               /\ after.clients[c].capabilities = clients[c].capabilities

\* no socket is sent ConnectionAccepted twice
C39_AcceptedOnce == \A s \in SocketIds : Cardinality(Acceptances(s)) <= 1

\* a connection is sent no ConnectionAccepted before its handshake
C39_NoneBeforeHandshake ==
  \A c \in DOMAIN clients : c \notin handshaken => Acceptances(c) = {}

(* --------------------------- late completions ------------------------- *)
\* the host operations still awaited whose connection is no longer held
Orphaned == {p \in pending : p.conn \notin DOMAIN clients}

\* what the resumption of the awaited operation p can be
Completions(p) ==
  IF p.kind = "createTask"
  THEN {createTaskRejected(World, p)}
         \cup (IF tasksCreated < MaxTasks THEN {createTaskResolved(World, p)} ELSE {})
  ELSE {postMessageResolved(World, p), postMessageRejected(World, p)}

(* C40: when a host operation completes after the connection whose command
   started it has been closed, the connection gets no Bridge record again,
   nothing is written to any socket (the acknowledgment's sendMessage
   returns false, so MESSAGE_SENT is not emitted), and the connection map
   and the other clients' records are as before. *)
C40_LateCompletionHarmless ==
  \A p \in Orphaned :
    /\ ~BHas(bclients, p.conn)
    /\ \A after \in Completions(p) :
         /\ after.bclients = bclients
         /\ after.sock = sock
         /\ after.clients = clients
         /\ after.emitted = << >>
         /\ after.pending = pending \ {p}
    /\ LET sent == sendMessage(World, p.conn, TriggerResult(World, p.conn, p.message))
       IN ~sent.ok /\ sent.w = World

\* the steps that deliver the outcome of such an operation change neither
\* sockets nor records
C40_LateCompletionSteps ==
  [][\A p \in Orphaned :
       p \notin pending' => (bclients' = bclients /\ sock' = sock /\ clients' = clients)]_vars

\* a createTask is still awaited for a connection that was closed, while
\* another connection is held and registered with the Bridge
C40_Witness ==
  \E p \in Orphaned :
    /\ p.kind = "createTask"
    /\ sock[p.conn].ready = "closed"
    /\ \E c \in DOMAIN clients : c # p.conn /\ BHas(bclients, c)

====
